---- MODULE Spec2Model ----
(***************************************************************************)
(* Run-state machine of the onboarding workflow service: the lifecycle     *)
(* endpoints of api.py (launch, pause, resume, approval webhook) running   *)
(* concurrently against the SQLAlchemy-backed StateStore of state.py,      *)
(* over the event-sourced RunState of models.py.                           *)
(*                                                                         *)
(* Every store call (load, save, find_by_idempotency_key) is one database  *)
(* transaction and therefore one atomic step.  A handler that loads, then  *)
(* mutates its private copy, then saves is two steps, and other requests   *)
(* may run between them: the endpoints are plain def handlers, which       *)
(* FastAPI runs on a thread pool, one thread per request in flight.        *)
(***************************************************************************)
EXTENDS Integers, Sequences, FiniteSets, TLC

\* ---- bounds ------------------------------------------------------------
MaxOps     == 2      \* requests served in one execution
MaxClock   == 1      \* ticks of the wall clock
MaxLog     == 2      \* events in the log of a RunState built directly

\* request p is the p-th request to arrive; each has a thread of its own
Callers == 1..MaxOps

\* ---- values ------------------------------------------------------------
None == "None"                       \* Python None for an Optional[str]
NoSession == <<"none", 0>>           \* session_id = None
NoRunId == 0                         \* a run_id that names no run

\* RunStatus, models.py
RUNNING           == "running"
PAUSED            == "paused"
AWAITING_APPROVAL == "awaiting_approval"
COMPLETED         == "completed"
FAILED            == "failed"
RunStatus == {RUNNING, PAUSED, AWAITING_APPROVAL, COMPLETED, FAILED}

\* EventType members the lifecycle endpoints produce, models.py
USER_INPUT        == "user_input"
APPROVAL_RECEIVED == "approval_received"
STEP_RESULT       == "step_result"
EV_PAUSED         == "paused"
EV_RESUMED        == "resumed"

\* request inputs
Companies   == {"Acme Corp", "Beta Inc"}
Keys        == {"idem-123"}
SessionsIn  == {NoSession, <<"given", 1>>}
ResumeData  == {<<>>, <<(<<"note", "go">>)>>}
Responders  == {"admin@example.com"}
Comments    == {None}
PAUSE_DATA  == <<(<<"reason", "Manual pause via API">>)>>

\* ---- models.py ---------------------------------------------------------
\* A dict is the sequence of its <<key, value>> items in insertion order,
\* the order in which dict.items() yields them.
items(d) == {d[i] : i \in DOMAIN d}

\* key in d
dict_has(d, key) == \E i \in DOMAIN d : d[i][1] = key

\* d[key]
dict_get(d, key) == d[CHOOSE i \in DOMAIN d : d[i][1] = key][2]

\* d.get(key, default)
dict_get_or(d, key, default) ==
    IF dict_has(d, key) THEN dict_get(d, key) ELSE default

\* StepStatus: the values of its members
StepStatus == {"success", "fail", "error", "pending", "skipped"}

\* The member StepStatus.SUCCESS as a Python object, written as its repr.
\* It is what StepResult(...).model_dump() holds under status; JSON holds
\* its value, the str "success".
SUCCESS_MEMBER == "<StepStatus.SUCCESS: 'success'>"

\* StepStatus(v): validation of a status, given as a value or as a member
StepStatus_of(v) == IF v = SUCCESS_MEMBER THEN "success" ELSE v

\* StepResult.model_validate(obj) for a dict obj: <<>> when validation
\* raises, else <<the StepResult>>.  system, status and details are
\* required, status must be a StepStatus value, the other fields have
\* defaults, keys that are no field are ignored.
StepResult_model_validate(obj) ==
    IF /\ dict_has(obj, "system") /\ dict_has(obj, "details")
       /\ dict_has(obj, "status")
       /\ StepStatus_of(dict_get(obj, "status")) \in StepStatus
    THEN <<[system |-> dict_get(obj, "system"),
            status |-> StepStatus_of(dict_get(obj, "status")),
            details |-> dict_get(obj, "details"),
            error_code |-> dict_get_or(obj, "error_code", None),
            retryable |-> dict_get_or(obj, "retryable", FALSE),
            attempt |-> dict_get_or(obj, "attempt", 1)]>>
    ELSE <<>>

\* mutant: every event is stamped with the epoch instead of now()
WorkflowEventEpoch(event_type, data, now) ==
    [event_type |-> event_type, timestamp |-> 0, data |-> data,
     step_name |-> None]

\* WorkflowEvent(event_type=..., data=...): the timestamp comes from the
\* default factory now().  The id field, a uuid4 that nothing reads, is left
\* out of the record.
WorkflowEvent(event_type, data, now) ==
    [event_type |-> event_type, timestamp |-> now, data |-> data,
     step_name |-> None]

\* RunState(...): run_id, created_at, updated_at from the default factories,
\* events and retry_counts empty.
RunState(run_id, session_id, company_name, status, idempotency_key, now) ==
    [run_id |-> run_id, session_id |-> session_id,
     company_name |-> company_name, status |-> status, events |-> <<>>,
     created_at |-> now, updated_at |-> now, retry_counts |-> {},
     idempotency_key |-> idempotency_key]

\* mutant: the event is inserted at the head of the log
append_event_first(run, event, now) ==
    [run EXCEPT !.events = <<event>> \o @, !.updated_at = now]

\* RunState.append_event
append_event(run, event, now) ==
    [run EXCEPT !.events = Append(@, event), !.updated_at = now]

\* mutant: the result field of every event is parsed, whatever its type
RECURSIVE step_results_any_type(_)
step_results_any_type(events) ==
    IF events = <<>> THEN <<>>
    ELSE (IF dict_has(Head(events).data, "result")
          THEN StepResult_model_validate(dict_get(Head(events).data, "result"))
          ELSE <<>>) \o step_results_any_type(Tail(events))

\* the loop of get_step_results over the events still to visit
RECURSIVE step_results(_)
step_results(events) ==
    IF events = <<>> THEN <<>>
    ELSE (IF /\ Head(events).event_type = STEP_RESULT
             /\ dict_has(Head(events).data, "result")
          THEN StepResult_model_validate(dict_get(Head(events).data, "result"))
          ELSE <<>>) \o step_results(Tail(events))

\* RunState.get_step_results
get_step_results(run) == step_results(run.events)

\* RunState.get_retry_count: retry_counts.get(step_name, 0); the dict is a
\* set of <<step_name, count>> pairs with one pair per step
get_retry_count(run, step_name) ==
    IF \E e \in run.retry_counts : e[1] = step_name
    THEN (CHOOSE e \in run.retry_counts : e[1] = step_name)[2]
    ELSE 0

\* mutant: the count is stored in a dict that holds this step alone
increment_retry_alone(run, step_name) ==
    [run EXCEPT !.retry_counts =
        {<<step_name, get_retry_count(run, step_name) + 1>>}]

\* RunState.increment_retry: the run after the call
increment_retry(run, step_name) ==
    [run EXCEPT !.retry_counts =
        {e \in @ : e[1] # step_name}
            \cup {<<step_name, get_retry_count(run, step_name) + 1>>}]

\* RunState.increment_retry: the value the call returns
increment_retry_count(run, step_name) == get_retry_count(run, step_name) + 1

\* How model_dump_json writes event.data, a dict[str, Any]: each value by
\* its runtime type, a str, bool or None as it is, an enum member as its
\* value, a dict item by item.  TLA+ values carry no runtime type: in this
\* model the values that are dicts are the ones under the key result, and
\* the values inside them are strs or enum members.
to_json_str(v) == IF v = SUCCESS_MEMBER THEN "success" ELSE v

to_json_dict(d) ==
    IF d = <<>> THEN <<>>
    ELSE [i \in 1..Len(d) |-> <<d[i][1], to_json_str(d[i][2])>>]

to_json_item(item) ==
    IF item[1] = "result" THEN <<item[1], to_json_dict(item[2])>> ELSE item

to_json_data(d) ==
    IF d = <<>> THEN <<>> ELSE [i \in 1..Len(d) |-> to_json_item(d[i])]

to_json_events(events) ==
    IF events = <<>> THEN <<>>
    ELSE [i \in 1..Len(events) |->
             [events[i] EXCEPT !.data = to_json_data(events[i].data)]]

\* RunState.model_dump_json: the fields in declaration order
model_dump_json(r) ==
    <<r.run_id, r.session_id, r.company_name, r.status,
      to_json_events(r.events), r.created_at, r.updated_at, r.retry_counts,
      r.idempotency_key>>

\* WorkflowEvent.to_context_line: the lines of the block.  A line
\* f"{key}: {value}" is kept as the key and the value, str(value) being
\* one-to-one on the values of this model.
to_context_line(event) ==
    <<(<<"open", event.event_type>>)>>
        \o (IF event.step_name \notin {None, ""}
            THEN <<(<<"step", event.step_name>>)>> ELSE <<>>)
        \o (IF event.data = <<>> THEN <<>>
            ELSE [i \in 1..Len(event.data) |->
                     <<"item", event.data[i][1], event.data[i][2]>>])
        \o <<(<<"close", event.event_type>>)>>

\* the empty line that "\n\n".join puts between two blocks
BLANK == <<"blank">>

\* "\n\n".join(e.to_context_line() for e in events)
RECURSIVE join_blocks(_)
join_blocks(events) ==
    IF events = <<>> THEN <<>>
    ELSE IF Len(events) = 1 THEN to_context_line(events[1])
    ELSE to_context_line(events[1]) \o <<BLANK>> \o join_blocks(Tail(events))

\* RunState.to_context
to_context(run) == join_blocks(run.events)

\* RunState.model_validate_json
model_validate_json(j) ==
    [run_id |-> j[1], session_id |-> j[2], company_name |-> j[3],
     status |-> j[4], events |-> j[5], created_at |-> j[6],
     updated_at |-> j[7], retry_counts |-> j[8], idempotency_key |-> j[9]]

\* ---- state.py ----------------------------------------------------------
\* The table workflow_runs is a function from primary key to row.

\* Column(String, nullable=True, unique=True): a new row may not carry a
\* non-null idempotency_key that another row already holds.
\* mutant: the column is declared without unique=True
UniqueConstraintOff(table, rec) == TRUE

\* mutant: unique=True sits on the session_id column instead
UniqueOnSessionId(table, rec) ==
    \/ rec.session_id = NoSession
    \/ \A id \in DOMAIN table : table[id].session_id # rec.session_id

UniqueConstraint(table, rec) ==
    \/ rec.idempotency_key = None
    \/ \A id \in DOMAIN table :
          table[id].idempotency_key # rec.idempotency_key

\* the row StateStore.save inserts for a run that is not stored yet
RunStateRecord(run_state) ==
    [run_id |-> run_state.run_id, session_id |-> run_state.session_id,
     company_name |-> run_state.company_name, status |-> run_state.status,
     state_json |-> model_dump_json(run_state),
     idempotency_key |-> run_state.idempotency_key,
     created_at |-> run_state.created_at,
     updated_at |-> run_state.updated_at]

\* mutant: the update branch writes the columns and forgets state_json
save_columns_only(table, run_state) ==
    IF run_state.run_id \in DOMAIN table
    THEN [table EXCEPT ![run_state.run_id] =
             [@ EXCEPT !.status = run_state.status,
                       !.company_name = run_state.company_name,
                       !.updated_at = run_state.updated_at]]
    ELSE IF run_state.run_id \notin DOMAIN table
            /\ ~UniqueConstraint(table, RunStateRecord(run_state))
         THEN table
         ELSE [id \in DOMAIN table \cup {run_state.run_id} |->
                  IF id = run_state.run_id
                  THEN RunStateRecord(run_state) ELSE table[id]]

\* mutant: insert-or-ignore, a stored row is never rewritten
save_insert_or_ignore(table, run_state) ==
    IF run_state.run_id \in DOMAIN table
       \/ ~UniqueConstraint(table, RunStateRecord(run_state))
    THEN table
    ELSE [id \in DOMAIN table \cup {run_state.run_id} |->
             IF id = run_state.run_id
             THEN RunStateRecord(run_state) ELSE table[id]]

\* mutant: the update runs without its WHERE clause and sets the status of
\* every row
save_update_every_row(table, run_state) ==
    IF run_state.run_id \in DOMAIN table
    THEN [id \in DOMAIN table |->
             IF id = run_state.run_id
             THEN [table[id] EXCEPT !.status = run_state.status,
                           !.state_json = model_dump_json(run_state),
                           !.company_name = run_state.company_name,
                           !.updated_at = run_state.updated_at]
             ELSE [table[id] EXCEPT !.status = run_state.status]]
    ELSE IF ~UniqueConstraint(table, RunStateRecord(run_state))
         THEN table
         ELSE [id \in DOMAIN table \cup {run_state.run_id} |->
                  IF id = run_state.run_id
                  THEN RunStateRecord(run_state) ELSE table[id]]

\* mutant: the update branch rewrites every column from the run
save_every_column(table, run_state) ==
    IF run_state.run_id \in DOMAIN table
    THEN [table EXCEPT ![run_state.run_id] = RunStateRecord(run_state)]
    ELSE IF ~UniqueConstraint(table, RunStateRecord(run_state))
         THEN table
         ELSE [id \in DOMAIN table \cup {run_state.run_id} |->
                  IF id = run_state.run_id
                  THEN RunStateRecord(run_state) ELSE table[id]]

\* mutant: the commit never fails
save_never_raises(table, run_state) == FALSE

\* mutant: save always inserts, so a stored run_id fails on the primary key
save_raises_stored(table, run_state) ==
    \/ run_state.run_id \in DOMAIN table
    \/ ~UniqueConstraint(table, RunStateRecord(run_state))

\* StateStore.save raises IntegrityError at commit
save_raises(table, run_state) ==
    /\ run_state.run_id \notin DOMAIN table
    /\ ~UniqueConstraint(table, RunStateRecord(run_state))

\* StateStore.save: the table after the call (unchanged when it raises)
save(table, run_state) ==
    IF run_state.run_id \in DOMAIN table
    THEN [table EXCEPT ![run_state.run_id] =
             [@ EXCEPT !.status = run_state.status,
                       !.state_json = model_dump_json(run_state),
                       !.company_name = run_state.company_name,
                       !.updated_at = run_state.updated_at]]
    ELSE IF save_raises(table, run_state)
         THEN table
         ELSE [id \in DOMAIN table \cup {run_state.run_id} |->
                  IF id = run_state.run_id
                  THEN RunStateRecord(run_state) ELSE table[id]]

\* mutant: the loaded run comes back without its idempotency key
load_without_key(table, run_id) ==
    IF run_id \in DOMAIN table
    THEN <<[model_validate_json(table[run_id].state_json)
               EXCEPT !.idempotency_key = None]>>
    ELSE <<>>

\* mutant: a missing run_id falls back to the first row of the table
load_or_first(table, run_id) ==
    IF run_id \in DOMAIN table
    THEN <<model_validate_json(table[run_id].state_json)>>
    ELSE IF DOMAIN table = {} THEN <<>>
    ELSE <<model_validate_json(
             table[CHOOSE id \in DOMAIN table :
                      \A o \in DOMAIN table : id <= o].state_json)>>

\* StateStore.load: <<>> for None, <<run>> otherwise
load(table, run_id) ==
    IF run_id \in DOMAIN table
    THEN <<model_validate_json(table[run_id].state_json)>>
    ELSE <<>>

\* mutant: the lookup never matches a row
find_by_key_never(table, key) == <<>>

\* StateStore.find_by_idempotency_key: .filter_by(idempotency_key=key).first()
find_by_idempotency_key(table, key) ==
    LET hits == {id \in DOMAIN table : table[id].idempotency_key = key}
    IN  IF hits = {} THEN <<>>
        ELSE <<model_validate_json(
                 table[CHOOSE id \in hits : \A o \in hits : id <= o].state_json)>>

\* StateStore.find_by_session: .filter_by(session_id=session_id).all(), the
\* matching rows deserialized; no ORDER BY, and a row is matched once, so
\* the result is modelled as the set of runs
find_by_session(table, session_id) ==
    {model_validate_json(table[id].state_json) :
        id \in {i \in DOMAIN table : table[i].session_id = session_id}}

\* StateStore.list_active: the rows whose status column is active, each
\* deserialized from state_json.  The query has no ORDER BY; rows are keyed
\* by run_id, so the result is modelled as the set of runs.
\* mutant: awaiting_approval is missing from active_statuses
list_active_no_awaiting(table) ==
    {model_validate_json(table[id].state_json) :
        id \in {i \in DOMAIN table : table[i].status \in {RUNNING, PAUSED}}}

list_active(table) ==
    {model_validate_json(table[id].state_json) :
        id \in {i \in DOMAIN table :
                   table[i].status \in {RUNNING, PAUSED, AWAITING_APPROVAL}}}

\* StateStore.list_all
list_all(table) ==
    {model_validate_json(table[id].state_json) : id \in DOMAIN table}

\* StateStore.list_by_status: the rows whose status column equals status
list_by_status(table, status) ==
    {model_validate_json(table[id].state_json) :
        id \in {i \in DOMAIN table : table[i].status = status}}

\* ---- provisioners.py ----------------------------------------------------
\* A str is the sequence of its characters.  A Python value of another type
\* is a record that names the type; every value has the same fields, so
\* that values of different types can be told apart.
PyStr(text) == [type |-> "str", text |-> text, num |-> 0, items |-> <<>>]
PyNone == [type |-> "NoneType", text |-> <<>>, num |-> 0, items |-> <<>>]
PyInt(n) == [type |-> "int", text |-> <<>>, num |-> n, items |-> <<>>]
PyDict(d) == [type |-> "dict", text |-> <<>>, num |-> 0, items |-> d]

\* bool(value)
truthy(value) ==
    IF value.type = "str" THEN value.text # <<>>
    ELSE IF value.type = "int" THEN value.num # 0
    ELSE IF value.type = "dict" THEN value.items # <<>>
    ELSE FALSE

Whitespace == {" ", "\t", "\n"}

\* text with its leading characters in chars removed
RECURSIVE lstrip(_, _)
lstrip(text, chars) ==
    IF text # <<>> /\ Head(text) \in chars THEN lstrip(Tail(text), chars)
    ELSE text

\* text with its trailing characters in chars removed
RECURSIVE rstrip(_, _)
rstrip(text, chars) ==
    IF text # <<>> /\ text[Len(text)] \in chars
    THEN rstrip(SubSeq(text, 1, Len(text) - 1), chars)
    ELSE text

\* str.strip() and str.strip("-")
strip(text, chars) == rstrip(lstrip(text, chars), chars)

\* str.lower(), on the letters used here
lower_char(c) ==
    IF c = "A" THEN "a" ELSE IF c = "B" THEN "b" ELSE IF c = "C" THEN "c"
    ELSE c

lower(text) ==
    IF text = <<>> THEN <<>> ELSE [i \in 1..Len(text) |-> lower_char(text[i])]

\* [a-z0-9]
SlugChars == {"a", "b", "c", "0", "1"}

\* re.sub(r"[^a-z0-9]+", "-", text): every maximal run of other characters
\* becomes one hyphen
RECURSIVE re_sub_runs(_)
re_sub_runs(text) ==
    IF text = <<>> THEN <<>>
    ELSE IF Head(text) \in SlugChars
    THEN <<Head(text)>> \o re_sub_runs(Tail(text))
    ELSE <<"-">> \o re_sub_runs(lstrip(text, {text[i] : i \in {j \in DOMAIN text : text[j] \notin SlugChars}}))

UNKNOWN == <<"u", "n", "k", "n", "o", "w", "n">>

\* models.sanitize_slug
sanitize_slug(company) ==
    LET slug == strip(re_sub_runs(strip(lower(company), Whitespace)), {"-"})
    IN  IF slug = <<>> THEN UNKNOWN ELSE slug

\* the outcome of a call: a value returned or an exception raised
Returned(value) == [raised |-> "none", value |-> value, error_code |-> None]
Raised(exception, error_code) ==
    [raised |-> exception, value |-> PyNone, error_code |-> error_code]

\* _extract_company.  step_input.input of an object without that attribute
\* and company.strip() of a value that is no str raise AttributeError.
extract_company(step_input) ==
    IF ~step_input.has_input THEN Raised("AttributeError", None)
    ELSE LET input == step_input.input
             company ==
                 IF input.type = "dict"
                 THEN dict_get_or(input.items, "company_name", PyStr(<<>>))
                 ELSE IF input.type = "str" THEN input
                 ELSE PyNone
         IN  IF ~truthy(company)
             THEN Raised("ProvisioningError", "MISSING_COMPANY_NAME")
             ELSE IF company.type # "str"
             THEN Raised("AttributeError", None)
             ELSE IF strip(company.text, Whitespace) = <<>>
             THEN Raised("ProvisioningError", "MISSING_COMPANY_NAME")
             ELSE Returned(strip(company.text, Whitespace))

\* StepResult(system=..., status=..., details=..., error_code=...,
\* retryable=...): attempt keeps its default
StepResult(system, status, details, error_code, retryable) ==
    [system |-> system, status |-> status, details |-> details,
     error_code |-> error_code, retryable |-> retryable, attempt |-> 1]

\* StepResult.to_content and StepResult.from_content: the JSON object with
\* the fields in declaration order
to_content(result) ==
    <<result.system, result.status, result.details, result.error_code,
      result.retryable, result.attempt>>

from_content(content) ==
    [system |-> content[1], status |-> content[2], details |-> content[3],
     error_code |-> content[4], retryable |-> content[5],
     attempt |-> content[6]]

\* StepOutput(content=...)
StepOutput(content) == [content |-> content]

\* mutant: the executor has no handler for exceptions other than
\* ProvisioningError
executor_no_catch_all(system, step_input) ==
    LET extracted == extract_company(step_input)
    IN  IF extracted.raised = "none"
        THEN Returned(StepOutput(to_content(
                 StepResult(system, "success",
                            <<"template", system, extracted.value,
                              sanitize_slug(extracted.value)>>,
                            None, FALSE))))
        ELSE IF extracted.raised = "ProvisioningError"
        THEN Returned(StepOutput(to_content(
                 StepResult(system, "error",
                            <<"str(exc)", extracted.error_code>>,
                            extracted.error_code, FALSE))))
        ELSE Raised(extracted.raised, None)

\* the executor that _make_provisioner(system, template) returns.  details
\* is the template of the system filled with company and slug, str(exc), or
\* the text "Unexpected error: {exc}".
executor(system, step_input) ==
    LET extracted == extract_company(step_input)
    IN  IF extracted.raised = "none"
        THEN Returned(StepOutput(to_content(
                 StepResult(system, "success",
                            <<"template", system, extracted.value,
                              sanitize_slug(extracted.value)>>,
                            None, FALSE))))
        ELSE IF extracted.raised = "ProvisioningError"
        THEN Returned(StepOutput(to_content(
                 StepResult(system, "error",
                            <<"str(exc)", extracted.error_code>>,
                            extracted.error_code, FALSE))))
        ELSE Returned(StepOutput(to_content(
                 StepResult(system, "error",
                            <<"Unexpected error: ", extracted.raised>>,
                            "INTERNAL_ERROR", TRUE))))

\* ---- program state -----------------------------------------------------
VARIABLES
    store,     \* the table workflow_runs
    uuid,      \* number of run_ids uuid4() has handed out so far
    ops,       \* number of requests accepted so far
    clock,     \* datetime.now(timezone.utc)
    pc,        \* where each request stands in its handler
    req,       \* the request each handler serves or served
    run,       \* the handler's local RunState: <<>> or <<run>>
    resp       \* the response each request got

vars == <<store, uuid, ops, clock, pc, req, run, resp>>

NoReq ==
    [op |-> "none", run_id |-> NoRunId, company_name |-> None,
     session_id |-> NoSession, idempotency_key |-> None, data |-> <<>>,
     approved |-> FALSE, status |-> None]

NoResp ==
    [op |-> "none", code |-> 0, run_id |-> NoRunId, status |-> None,
     message |-> None]

Init ==
    /\ store = <<>>
    /\ uuid = 0
    /\ ops = 0
    /\ clock = 0
    /\ pc = [p \in Callers |-> "idle"]
    /\ req = [p \in Callers |-> NoReq]
    /\ run = [p \in Callers |-> <<>>]
    /\ resp = [p \in Callers |-> NoResp]

\* the wall clock advances
Tick ==
    /\ clock < MaxClock
    /\ clock' = clock + 1
    /\ UNCHANGED <<store, uuid, ops, pc, req, run, resp>>

\* request p arrives
Accept(p) ==
    /\ pc[p] = "idle"
    /\ ops < MaxOps
    /\ p = ops + 1
    /\ ops' = ops + 1

\* the handler of request q returns r; its local run goes out of scope
Return(p, q, r) ==
    /\ pc' = [pc EXCEPT ![p] = "done"]
    /\ req' = [req EXCEPT ![p] = q]
    /\ resp' = [resp EXCEPT ![p] = r]
    /\ run' = [run EXCEPT ![p] = <<>>]

\* a handler goes on to its next store call with request q and local run r
Goto(p, label, q, r) ==
    /\ pc' = [pc EXCEPT ![p] = label]
    /\ req' = [req EXCEPT ![p] = q]
    /\ run' = [run EXCEPT ![p] = <<r>>]
    /\ UNCHANGED resp

\* ---- api.py: POST /runs ------------------------------------------------
LaunchResponse(run_state, message) ==
    [op |-> "launch", code |-> 200, run_id |-> run_state.run_id,
     status |-> run_state.status, message |-> message]

\* launch_run, lines 95-105: the RunState the handler builds before it
\* touches the store.  run_id is the fresh uuid4 of the new RunState; a
\* request without session_id gets a session uuid4 of its own, written
\* <<"uuid", run_id>> (fresh because run_id is).
LaunchSessionId(session_id, run_id) ==
    IF session_id = NoSession THEN <<"uuid", run_id>> ELSE session_id

\* mutant: run_id evaluated once (a plain default instead of default_factory)
LaunchRunStateFixedId(company_name, session_id, idempotency_key, run_id, now) ==
    append_event(
        RunState(1, LaunchSessionId(session_id, run_id), company_name,
                 RUNNING, idempotency_key, now),
        WorkflowEvent(USER_INPUT, <<(<<"company_name", company_name>>)>>, now),
        now)

\* mutant: the handler forgets the user_input event
LaunchRunStateNoEvent(company_name, session_id, idempotency_key, run_id, now) ==
    RunState(run_id, LaunchSessionId(session_id, run_id), company_name,
             RUNNING, idempotency_key, now)

\* mutant: the run is launched awaiting approval
LaunchRunStateAwaiting(company_name, session_id, idempotency_key, run_id, now) ==
    append_event(
        RunState(run_id, LaunchSessionId(session_id, run_id), company_name,
                 AWAITING_APPROVAL, idempotency_key, now),
        WorkflowEvent(USER_INPUT, <<(<<"company_name", company_name>>)>>, now),
        now)

LaunchRunState(company_name, session_id, idempotency_key, run_id, now) ==
    append_event(
        RunState(run_id, LaunchSessionId(session_id, run_id), company_name,
                 RUNNING, idempotency_key, now),
        WorkflowEvent(USER_INPUT, <<(<<"company_name", company_name>>)>>, now),
        now)

\* StateStore.create_or_get_by_idempotency, first store access: with a key,
\* look the key up; a run without a key is never looked up.
CreateOrGetLookup(table, run_state) ==
    IF run_state.idempotency_key = None THEN <<>>
    ELSE find_by_idempotency_key(table, run_state.idempotency_key)

\* launch_run up to the first store access of create_or_get_by_idempotency:
\* replay the stored run when the lookup finds one, otherwise go on to
\* insert the run just built.
LaunchBegin(p, company_name, session_id, idempotency_key) ==
    /\ Accept(p)
    /\ uuid' = uuid + 1
    /\ LET r == LaunchRunState(company_name, session_id, idempotency_key,
                               uuid + 1, clock)
           q == [NoReq EXCEPT !.op = "launch",
                              !.company_name = company_name,
                              !.session_id = session_id,
                              !.idempotency_key = idempotency_key]
           found == CreateOrGetLookup(store, r)
       IN  IF Len(found) > 0
           THEN Return(p, q, LaunchResponse(found[1],
                                   "Run already exists (idempotent)."))
           ELSE Goto(p, "launch_insert", q, r)
    /\ UNCHANGED <<store, clock>>

\* create_or_get_by_idempotency: the insert, guarded by the unique index
LaunchInsert(p) ==
    /\ pc[p] = "launch_insert"
    /\ IF save_raises(store, run[p][1])
       THEN /\ pc' = [pc EXCEPT ![p] = "launch_refetch"]
            /\ UNCHANGED <<store, resp, req, run>>
       ELSE /\ store' = save(store, run[p][1])
            /\ Return(p, req[p], LaunchResponse(run[p][1], "Run launched."))
    /\ UNCHANGED <<uuid, ops, clock>>

\* create_or_get_by_idempotency: after a duplicate key, fetch the winner
LaunchRefetch(p) ==
    /\ pc[p] = "launch_refetch"
    /\ LET found == find_by_idempotency_key(store, req[p].idempotency_key)
       IN  IF Len(found) > 0
           THEN Return(p, req[p], LaunchResponse(found[1],
                           "Run already exists (idempotent)."))
           ELSE Return(p, req[p],
                       [NoResp EXCEPT !.op = "launch", !.code = 500])
    /\ UNCHANGED <<store, uuid, ops, clock>>

\* ---- api.py: lifecycle endpoints ---------------------------------------
\* The detail strings of the handlers, as the pieces of their f-strings:
\* fixed text and, between the pieces, the interpolated status value.
Detail(op, status_code, status) ==
    IF status_code = 404 THEN <<"Run not found.">>
    ELSE IF status_code = 400
    THEN <<"Invalid status '", status, "'. Valid values: ",
           "['awaiting_approval', 'completed', 'failed', 'paused', 'running']",
           ".">>
    ELSE IF op = "pause"
    THEN <<"Cannot pause run in status '", status, "'.">>
    ELSE IF op = "resume"
    THEN <<"Cannot resume run in status '", status, "'.">>
    ELSE <<"Run is not awaiting approval (status: ", status, ").">>

\* raise HTTPException(status_code=..., detail=...); status is the value the
\* detail interpolates (None for a 404)
HTTPException(op, status_code, run_id, status) ==
    [op |-> op, code |-> status_code, run_id |-> run_id, status |-> status,
     message |-> None, detail |-> Detail(op, status_code, status)]

\* run ids a request may name: every stored run and one that is not stored
RunIdsIn == DOMAIN store \cup {NoRunId}

\* mutant: pause only refuses terminal runs
pause_allowed_active(status) == status \notin {COMPLETED, FAILED}

\* mutant: resume forgets awaiting_approval
resume_allowed_paused_only(status) == status = PAUSED

\* the status guards of the three handlers, lines 150, 174, 202
pause_allowed(status) == status = RUNNING

resume_allowed(status) == status \in {PAUSED, AWAITING_APPROVAL}

approval_allowed(status) == status = AWAITING_APPROVAL

\* mutant: the handler sets the status and forgets the event
PauseLoadStatusOnly(p, run_id) ==
    /\ Accept(p)
    /\ LET loaded == load(store, run_id)
           q == [NoReq EXCEPT !.op = "pause", !.run_id = run_id]
       IN  IF Len(loaded) = 0
           THEN Return(p, q, HTTPException("pause", 404, run_id, None))
           ELSE IF ~pause_allowed(loaded[1].status)
           THEN Return(p, q, HTTPException("pause", 409, run_id,
                                           loaded[1].status))
           ELSE Goto(p, "pause_save", q, [loaded[1] EXCEPT !.status = PAUSED])
    /\ UNCHANGED <<store, uuid, clock>>

\* pause_run, lines 147-162: load, guard, mutate the private copy
PauseLoad(p, run_id) ==
    /\ Accept(p)
    /\ LET loaded == load(store, run_id)
           q == [NoReq EXCEPT !.op = "pause", !.run_id = run_id]
       IN  IF Len(loaded) = 0
           THEN Return(p, q, HTTPException("pause", 404, run_id, None))
           ELSE IF ~pause_allowed(loaded[1].status)
           THEN Return(p, q, HTTPException("pause", 409, run_id,
                                           loaded[1].status))
           ELSE Goto(p, "pause_save", q,
                     append_event([loaded[1] EXCEPT !.status = PAUSED],
                         WorkflowEvent(EV_PAUSED, PAUSE_DATA, clock),
                         clock))
    /\ UNCHANGED <<store, uuid, clock>>

\* mutant: the handler saves only once no other handler is in flight
PauseSaveWait(p) ==
    /\ pc[p] = "pause_save"
    /\ \A o \in Callers \ {p} : pc[o] \in {"idle", "done"}
    /\ store' = save(store, run[p][1])
    /\ Return(p, req[p], [op |-> "pause", code |-> 200, run_id |-> req[p].run_id,
                  status |-> PAUSED, message |-> "Run paused."])
    /\ UNCHANGED <<uuid, ops, clock>>

\* pause_run, lines 163-165: store.save(run) and the response
PauseSave(p) ==
    /\ pc[p] = "pause_save"
    /\ store' = save(store, run[p][1])
    /\ Return(p, req[p], [op |-> "pause", code |-> 200, run_id |-> req[p].run_id,
                  status |-> PAUSED, message |-> "Run paused."])
    /\ UNCHANGED <<uuid, ops, clock>>

\* mutant: the handler appends and saves before it checks the status
ResumeLoadSaveFirst(p, run_id, data) ==
    /\ Accept(p)
    /\ LET loaded == load(store, run_id)
           q == [NoReq EXCEPT !.op = "resume", !.run_id = run_id,
                              !.data = data]
       IN  IF Len(loaded) = 0
           THEN /\ Return(p, q, HTTPException("resume", 404, run_id, None))
                /\ UNCHANGED store
           ELSE /\ store' = save(store,
                        append_event(loaded[1],
                            WorkflowEvent(EV_RESUMED, data, clock), clock))
                /\ Return(p, q, HTTPException("resume", 409, run_id,
                                              loaded[1].status))
    /\ UNCHANGED <<uuid, clock>>

\* resume_run, lines 171-186: load, guard, mutate the private copy
ResumeLoad(p, run_id, data) ==
    /\ Accept(p)
    /\ LET loaded == load(store, run_id)
           q == [NoReq EXCEPT !.op = "resume", !.run_id = run_id,
                              !.data = data]
       IN  IF Len(loaded) = 0
           THEN Return(p, q, HTTPException("resume", 404, run_id, None))
           ELSE IF ~resume_allowed(loaded[1].status)
           THEN Return(p, q, HTTPException("resume", 409, run_id,
                                           loaded[1].status))
           ELSE Goto(p, "resume_save", q,
                     append_event([loaded[1] EXCEPT !.status = RUNNING],
                         WorkflowEvent(EV_RESUMED, data, clock),
                         clock))
    /\ UNCHANGED <<store, uuid, clock>>

\* resume_run, lines 187-189: store.save(run) and the response
ResumeSave(p) ==
    /\ pc[p] = "resume_save"
    /\ store' = save(store, run[p][1])
    /\ Return(p, req[p], [op |-> "resume", code |-> 200, run_id |-> req[p].run_id,
                  status |-> RUNNING, message |-> "Run resumed."])
    /\ UNCHANGED <<uuid, ops, clock>>

\* mutant: the two outcomes are swapped
ApprovalStatusSwapped(approved) == IF approved THEN FAILED ELSE RUNNING

\* the status the webhook sets, line 218
ApprovalStatus(approved) == IF approved THEN RUNNING ELSE FAILED

\* receive_approval_webhook, lines 199-218
ApprovalLoad(p, run_id, approved, responder, comment) ==
    /\ Accept(p)
    /\ LET loaded == load(store, run_id)
           q == [NoReq EXCEPT !.op = "approval", !.run_id = run_id,
                              !.approved = approved]
       IN  IF Len(loaded) = 0
           THEN Return(p, q, HTTPException("approval", 404, run_id, None))
           ELSE IF ~approval_allowed(loaded[1].status)
           THEN Return(p, q, HTTPException("approval", 409, run_id,
                                           loaded[1].status))
           ELSE Goto(p, "approval_save", q,
                     [append_event(loaded[1],
                          WorkflowEvent(APPROVAL_RECEIVED,
                              <<(<<"approved", approved>>),
                                (<<"responder", responder>>),
                                (<<"comment", comment>>)>>,
                              clock),
                          clock)
                      EXCEPT !.status = ApprovalStatus(approved)])
    /\ UNCHANGED <<store, uuid, clock>>

\* receive_approval_webhook, lines 219-236
ApprovalSave(p) ==
    /\ pc[p] = "approval_save"
    /\ store' = save(store, run[p][1])
    /\ Return(p, req[p], [op |-> "approval", code |-> 200,
                  run_id |-> req[p].run_id, status |-> run[p][1].status,
                  message |-> IF req[p].approved THEN "Approval received."
                              ELSE "Approval denied, run marked as failed."])
    /\ UNCHANGED <<uuid, ops, clock>>

\* ---- api.py: reads -----------------------------------------------------
\* RunStateResponse(...), lines 136-141 and 269-279
RunStateResponse(r) ==
    [run_id |-> r.run_id, status |-> r.status,
     company_name |-> r.company_name, event_count |-> Len(r.events),
     created_at |-> r.created_at, updated_at |-> r.updated_at]

\* mutant: the handler saves the run it loaded, with a new updated_at
GetRunTouch(p, run_id) ==
    /\ Accept(p)
    /\ LET loaded == load(store, run_id)
           q == [NoReq EXCEPT !.op = "get", !.run_id = run_id]
       IN  IF Len(loaded) = 0
           THEN /\ Return(p, q, HTTPException("get", 404, run_id, None))
                /\ UNCHANGED store
           ELSE /\ Return(p, q, [op |-> "get", code |-> 200, run_id |-> run_id,
                              status |-> loaded[1].status, message |-> None,
                              body |-> RunStateResponse(loaded[1])])
                /\ store' = save(store, [loaded[1] EXCEPT
                                            !.updated_at = clock + 1])
    /\ UNCHANGED <<uuid, clock>>

\* get_run
GetRun(p, run_id) ==
    /\ Accept(p)
    /\ LET loaded == load(store, run_id)
           q == [NoReq EXCEPT !.op = "get", !.run_id = run_id]
       IN  IF Len(loaded) = 0
           THEN Return(p, q, HTTPException("get", 404, run_id, None))
           ELSE Return(p, q, [op |-> "get", code |-> 200, run_id |-> run_id,
                              status |-> loaded[1].status, message |-> None,
                              body |-> RunStateResponse(loaded[1])])
    /\ UNCHANGED <<store, uuid, clock>>

\* the values of the status query parameter: absent, empty, the five
\* members of _VALID_STATUSES, and one that is not a member
StatusFilters == {None, "", "bogus"} \cup RunStatus

\* mutant: the filter is ignored
ListRunsUnfiltered(p, status) ==
    /\ Accept(p)
    /\ Return(p, [NoReq EXCEPT !.op = "list", !.status = status],
              [op |-> "list", code |-> 200, run_id |-> NoRunId,
               status |-> status, message |-> None,
               body |-> {RunStateResponse(r) : r \in list_active(store)}])
    /\ UNCHANGED <<store, uuid, clock>>

\* list_runs: "if status:" is false for an absent and for an empty value
ListRuns(p, status) ==
    /\ Accept(p)
    /\ LET q == [NoReq EXCEPT !.op = "list", !.status = status]
       IN  IF status \notin {None, ""} /\ status \notin RunStatus
           THEN Return(p, q, HTTPException("list", 400, NoRunId, status))
           ELSE Return(p, q,
                    [op |-> "list", code |-> 200, run_id |-> NoRunId,
                     status |-> status, message |-> None,
                     body |-> {RunStateResponse(r) :
                                 r \in IF status \in {None, ""}
                                       THEN list_active(store)
                                       ELSE list_by_status(store, status)}])
    /\ UNCHANGED <<store, uuid, clock>>

\* ---- direct use of the store -------------------------------------------
\* store.save(RunState(company_name=..., status=..., ...)): a writer other
\* than the endpoints (the executor, the test fixtures) stores a run it
\* built itself.  IntegrityError propagates to that writer.
StoreSave(p, company_name, session_id, status, idempotency_key) ==
    /\ Accept(p)
    /\ uuid' = uuid + 1
    /\ LET r == RunState(uuid + 1, session_id, company_name, status,
                         idempotency_key, clock)
           q == [NoReq EXCEPT !.op = "save", !.run_id = uuid + 1,
                              !.company_name = company_name,
                              !.session_id = session_id,
                              !.idempotency_key = idempotency_key]
       IN  /\ store' = save(store, r)
           /\ Return(p, q, [op |-> "save",
                         code |-> IF save_raises(store, r) THEN 500 ELSE 200,
                         run_id |-> r.run_id, status |-> r.status,
                         message |-> IF save_raises(store, r)
                                     THEN "IntegrityError" ELSE None])
    /\ UNCHANGED clock

\* What a writer does to a RunState it holds before it saves it: assign a
\* status, append an event, count a retry, or nothing; or it saves, under
\* the run_id of a stored run, a RunState it builds anew with another
\* session_id, company_name and idempotency_key:
\* RunState(run_id=..., session_id=..., company_name=..., idempotency_key=...)
Changes ==
    {<<"none", None>>, <<"event", EV_PAUSED>>, <<"retry", "crm">>,
     <<"replace", "idem-456">>}
        \cup {<<"status", st>> : st \in RunStatus}

Change(r, change, now) ==
    IF change[1] = "status" THEN [r EXCEPT !.status = change[2]]
    ELSE IF change[1] = "replace"
    THEN RunState(r.run_id, <<"given", 2>>, "Beta Inc", r.status, change[2],
                  now)
    ELSE IF change[1] = "event"
    THEN append_event(r, WorkflowEvent(change[2], <<(<<"reason", "test">>)>>, now),
                      now)
    ELSE IF change[1] = "retry" THEN increment_retry(r, change[2])
    ELSE r

\* the writer is done and still holds the RunState r it passed to save
Held(p, q, r, code) ==
    /\ pc' = [pc EXCEPT ![p] = "done"]
    /\ req' = [req EXCEPT ![p] = q]
    /\ run' = [run EXCEPT ![p] = <<r>>]
    /\ resp' = [resp EXCEPT ![p] =
                    [op |-> q.op, code |-> code, run_id |-> r.run_id,
                     status |-> r.status,
                     message |-> IF code = 500 THEN "IntegrityError"
                                 ELSE None]]

\* run = RunState(...); <change>; store.save(run)
StoreSaveNew(p, status, idempotency_key, change) ==
    /\ Accept(p)
    /\ uuid' = uuid + 1
    /\ change[1] \in {"none", "event", "retry"}
    /\ LET r == Change(RunState(uuid + 1, NoSession, "Acme Corp", status,
                                idempotency_key, clock), change, clock)
           q == [NoReq EXCEPT !.op = "save_new", !.run_id = uuid + 1,
                              !.company_name = "Acme Corp",
                              !.idempotency_key = idempotency_key]
       IN  /\ store' = save(store, r)
           /\ Held(p, q, r, IF save_raises(store, r) THEN 500 ELSE 200)
    /\ UNCHANGED clock

\* run = store.load(run_id); <change>; store.save(run), by the only writer
StoreUpdate(p, run_id, change) ==
    /\ Accept(p)
    /\ run_id \in DOMAIN store
    /\ change[1] # "none"
    /\ LET r == Change(load(store, run_id)[1], change, clock)
           q == [NoReq EXCEPT !.op = "update", !.run_id = run_id]
       IN  /\ store' = save(store, r)
           /\ Held(p, q, r, 200)
    /\ UNCHANGED <<uuid, clock>>

\* store.save(run) once more, by the writer that has just saved run and
\* still holds it unchanged
StoreSaveAgain(p) ==
    /\ Accept(p)
    /\ ops > 0
    /\ pc[ops] = "done"
    /\ req[ops].op \in {"save_new", "update", "save_again"}
    /\ LET r == run[ops][1]
           q == [NoReq EXCEPT !.op = "save_again", !.run_id = r.run_id]
       IN  /\ store' = save(store, r)
           /\ Held(p, q, r, IF save_raises(store, r) THEN 500 ELSE 200)
    /\ UNCHANGED <<uuid, clock>>

\* a read of the store returns value to its caller
Queried(p, op, value) ==
    /\ pc' = [pc EXCEPT ![p] = "done"]
    /\ req' = [req EXCEPT ![p] = [NoReq EXCEPT !.op = op]]
    /\ run' = [run EXCEPT ![p] = <<>>]
    /\ resp' = [resp EXCEPT ![p] =
                    [op |-> op, code |-> 200, run_id |-> NoRunId,
                     status |-> None, message |-> None, value |-> value]]
    /\ UNCHANGED <<store, uuid, clock>>

\* store.load(run_id)
StoreLoad(p, run_id) ==
    /\ Accept(p)
    /\ Queried(p, "load", load(store, run_id))

\* store.find_by_idempotency_key(key)
StoreFindByKey(p, key) ==
    /\ Accept(p)
    /\ Queried(p, "find_by_idempotency_key",
               find_by_idempotency_key(store, key))

\* store.find_by_session(session_id)
StoreFindBySession(p, session_id) ==
    /\ Accept(p)
    /\ Queried(p, "find_by_session", find_by_session(store, session_id))

\* store.list_active()
StoreListActive(p) ==
    /\ Accept(p)
    /\ Queried(p, "list_active", list_active(store))

\* store.list_all()
StoreListAll(p) ==
    /\ Accept(p)
    /\ Queried(p, "list_all", list_all(store))

\* ---- direct use of a RunState -------------------------------------------
\* A program that holds one RunState and calls its methods, one call after
\* the other.  Call p works on the object as call p - 1 left it; run[p]
\* holds the object as built until call p is made and as call p left it
\* afterwards.  resp[p].value is what the call returned.
StepNames == {"crm", "billing"}

\* StepResult(system="crm", status="success", details="ok").model_dump(
\* mode="json", exclude_defaults=True), and one with an error code
RESULT_CRM ==
    <<(<<"system", "crm">>), (<<"status", "success">>),
      (<<"details", "ok">>)>>

RESULT_BILLING ==
    <<(<<"system", "billing">>), (<<"status", "error">>),
      (<<"details", "down">>), (<<"error_code", "INTERNAL_ERROR">>)>>

\* StepResult(system="crm", status="success", details="ok").model_dump(
\* exclude_defaults=True): Python mode keeps the status as the enum member
RESULT_DUMP ==
    <<(<<"system", "crm">>), (<<"status", SUCCESS_MEMBER>>),
      (<<"details", "ok">>)>>

\* a result whose status is no StepStatus, and one without details
RESULT_BOGUS ==
    <<(<<"system", "crm">>), (<<"status", "bogus">>),
      (<<"details", "ok">>)>>

RESULT_SHORT == <<(<<"system", "crm">>), (<<"status", "success">>)>>

\* WorkflowEvent(event_type=..., step_name=..., data=...) at time now
Event(event_type, step_name, data, now) ==
    [WorkflowEvent(event_type, data, now) EXCEPT !.step_name = step_name]

EventsIn ==
    {Event(STEP_RESULT, "Provision CRM", <<(<<"result", RESULT_CRM>>)>>, 0),
     Event(STEP_RESULT, None, <<(<<"result", RESULT_BILLING>>)>>, 0),
     Event(STEP_RESULT, None, <<(<<"result", RESULT_BOGUS>>)>>, 0),
     Event(STEP_RESULT, None, <<(<<"result", RESULT_SHORT>>)>>, 0),
     Event(STEP_RESULT, "Provision Slack", <<(<<"status", "success">>)>>, 0),
     Event(STEP_RESULT, None, <<(<<"result", RESULT_DUMP>>)>>, 0),
     Event(USER_INPUT, None, <<(<<"result", RESULT_CRM>>)>>, 0)}

LogsIn == UNION {[1..n -> EventsIn] : n \in 0..MaxLog}

\* RunState(status=..., events=[...], retry_counts={...})
RetryCountsIn ==
    {{}, {<<"crm", 1>>}, {<<"crm", 1>>, <<"billing", 2>>}}

RunStatesIn ==
    {[RunState(1, NoSession, "Acme Corp", st, None, 0)
         EXCEPT !.events = log, !.retry_counts = rc] :
        st \in {RUNNING, PAUSED}, log \in LogsIn, rc \in RetryCountsIn}

\* the object the next call works on
Cur == run[IF ops = 0 THEN 1 ELSE ops][1]

\* call p returns value and leaves the object as r
Called(p, op, step_name, r, value) ==
    /\ pc' = [pc EXCEPT ![p] = "done"]
    /\ req' = [req EXCEPT ![p] = [op |-> op, run_id |-> r.run_id,
                                  step_name |-> step_name]]
    /\ run' = [run EXCEPT ![p] = <<r>>]
    /\ resp' = [resp EXCEPT ![p] =
                    [op |-> op, code |-> 200, run_id |-> r.run_id,
                     status |-> r.status, message |-> None,
                     value |-> value]]
    /\ UNCHANGED <<store, uuid, clock>>

\* run.get_retry_count(step_name)
GetRetryCount(p, step_name) ==
    /\ Accept(p)
    /\ Called(p, "get_retry_count", step_name, Cur,
              get_retry_count(Cur, step_name))

\* run.increment_retry(step_name)
IncrementRetry(p, step_name) ==
    /\ Accept(p)
    /\ Called(p, "increment_retry", step_name,
              increment_retry(Cur, step_name),
              increment_retry_count(Cur, step_name))

\* run.get_step_results()
GetStepResults(p) ==
    /\ Accept(p)
    /\ Called(p, "get_step_results", None, Cur, get_step_results(Cur))

\* run.to_context()
ToContext(p) ==
    /\ Accept(p)
    /\ Called(p, "to_context", None, Cur, to_context(Cur))

\* store.save(run); run = store.load(run.run_id); run.to_context()
SaveLoadToContext(p) ==
    /\ Accept(p)
    /\ LET loaded == load(save(store, Cur), Cur.run_id)[1]
       IN  /\ store' = save(store, Cur)
           /\ pc' = [pc EXCEPT ![p] = "done"]
           /\ req' = [req EXCEPT ![p] = [op |-> "save_load_to_context",
                                         run_id |-> Cur.run_id,
                                         step_name |-> None]]
           /\ run' = [run EXCEPT ![p] = <<loaded>>]
           /\ resp' = [resp EXCEPT ![p] =
                           [op |-> "save_load_to_context", code |-> 200,
                            run_id |-> loaded.run_id,
                            status |-> loaded.status, message |-> None,
                            value |-> to_context(loaded)]]
    /\ UNCHANGED <<uuid, clock>>

\* run.append_event(WorkflowEvent(event_type=..., data=...))
AppendEvent(p, event_type) ==
    /\ Accept(p)
    /\ Called(p, "append_event", None,
              append_event(Cur, WorkflowEvent(event_type, <<>>, clock), clock),
              None)

\* ---- specifications ----------------------------------------------------
Step(p) ==
    \/ \E c \in Companies, s \in SessionsIn, k \in Keys \cup {None} :
          LaunchBegin(p, c, s, k)
    \/ LaunchInsert(p)
    \/ LaunchRefetch(p)
    \/ \E id \in RunIdsIn : PauseLoad(p, id)
    \/ PauseSave(p)
    \/ \E id \in RunIdsIn, d \in ResumeData : ResumeLoad(p, id, d)
    \/ ResumeSave(p)
    \/ \E id \in RunIdsIn, a \in BOOLEAN, r \in Responders, c \in Comments :
          ApprovalLoad(p, id, a, r, c)
    \/ ApprovalSave(p)
    \/ \E st \in RunStatus, k \in Keys \cup {None} :
          StoreSave(p, "Acme Corp", NoSession, st, k)
    \/ \E id \in RunIdsIn : GetRun(p, id)
    \/ \E f \in StatusFilters : ListRuns(p, f)

\* concurrent requests: any handler may take its next step at any time
Next == Tick \/ \E p \in Callers : Step(p)

Spec == Init /\ [][Next]_vars

\* the next store call of a handler that is in flight
Continue(p) ==
    \/ LaunchInsert(p)
    \/ LaunchRefetch(p)
    \/ PauseSave(p)
    \/ ResumeSave(p)
    \/ ApprovalSave(p)

\* one request at a time: a handler runs only while no other is in flight
Quiet(p) == \A q \in Callers \ {p} : pc[q] \in {"idle", "done"}

SeqStep(p) ==
    \/ \E c \in Companies, s \in SessionsIn, k \in Keys \cup {None} :
          Quiet(p) /\ LaunchBegin(p, c, s, k)
    \/ Quiet(p) /\ LaunchInsert(p)
    \/ \E id \in RunIdsIn : Quiet(p) /\ PauseLoad(p, id)
    \/ Quiet(p) /\ PauseSave(p)
    \/ \E id \in RunIdsIn, d \in ResumeData :
          Quiet(p) /\ ResumeLoad(p, id, d)
    \/ Quiet(p) /\ ResumeSave(p)
    \/ \E id \in RunIdsIn, a \in BOOLEAN, r \in Responders, c \in Comments :
          Quiet(p) /\ ApprovalLoad(p, id, a, r, c)
    \/ Quiet(p) /\ ApprovalSave(p)
    \/ \E st \in RunStatus, k \in Keys \cup {None} :
          Quiet(p) /\ StoreSave(p, "Acme Corp", NoSession, st, k)
    \/ \E id \in RunIdsIn : Quiet(p) /\ GetRun(p, id)
    \/ \E f \in StatusFilters : Quiet(p) /\ ListRuns(p, f)

SeqNext == Tick \/ \E p \in Callers : SeqStep(p)

SpecSeq == Init /\ [][SeqNext]_vars

\* the store used directly by one writer, one call after the other
StoreStep(p) ==
    \/ \E st \in RunStatus, k \in Keys \cup {None}, c \in Changes :
          StoreSaveNew(p, st, k, c)
    \/ \E id \in DOMAIN store, c \in Changes : StoreUpdate(p, id, c)

StoreNext == Tick \/ \E p \in Callers : StoreStep(p)

SpecStore == Init /\ [][StoreNext]_vars

\* one writer using the store directly, and the reads of the store and of
\* the API between its writes; the clock stands still, no read looks at it
ReadStep(p) ==
    \/ \E id \in RunIdsIn : StoreLoad(p, id)
    \/ \E k \in Keys \cup {"idem-456"} : StoreFindByKey(p, k)
    \/ \E s \in {<<"given", 1>>, <<"given", 2>>} : StoreFindBySession(p, s)
    \/ StoreListActive(p)
    \/ StoreListAll(p)
    \/ \E id \in RunIdsIn : GetRun(p, id)
    \/ \E f \in StatusFilters : ListRuns(p, f)

ReadsNext == \E p \in Callers : StoreStep(p) \/ ReadStep(p)

SpecReads == Init /\ [][ReadsNext]_vars

\* The table outlives the process: a StateStore constructed on a database
\* that an earlier process wrote to starts with the rows that process left.
\* Here it left one run, saved as store.save(RunState(status=...)) saves it.
InitRace ==
    /\ \E st \in RunStatus :
          store = save(<<>>, RunState(1, NoSession, "Acme Corp", st, None, 0))
    /\ uuid = 1
    /\ ops = 0
    /\ clock = 0
    /\ pc = [p \in Callers |-> "idle"]
    /\ req = [p \in Callers |-> NoReq]
    /\ run = [p \in Callers |-> <<>>]
    /\ resp = [p \in Callers |-> NoResp]

\* concurrent requests against a store that already holds a run
SpecRace == InitRace /\ [][Next]_vars

\* A store that holds one run launched by an earlier process, as launch_run
\* stored it, with requests served one at a time.
InitLaunched ==
    /\ store = save(<<>>, LaunchRunState("Acme Corp", NoSession, None, 1, 0))
    /\ uuid = 1
    /\ ops = 0
    /\ clock = 0
    /\ pc = [p \in Callers |-> "idle"]
    /\ req = [p \in Callers |-> NoReq]
    /\ run = [p \in Callers |-> <<>>]
    /\ resp = [p \in Callers |-> NoResp]

SpecSeqLaunched == InitLaunched /\ [][SeqNext]_vars

\* Concurrent requests against a store that holds a launched run, where
\* every handler in flight gets to run: the thread pool schedules each
\* handler thread, and each store call it makes completes.  The clock
\* stands still: no handler reads it to decide what it does next.
LiveNext == \E p \in Callers : Step(p)

SpecLive ==
    InitLaunched /\ [][LiveNext]_vars
        /\ \A p \in Callers : WF_vars(Continue(p))

\* one writer using a store that holds a launched run, who may save again
\* the run it has just saved
AgainNext == Tick \/ \E p \in Callers : StoreStep(p) \/ StoreSaveAgain(p)

SpecAgain == InitLaunched /\ [][AgainNext]_vars

\* A store that holds two runs left by an earlier process, and concurrent
\* pause, resume and approval requests.
InitPair ==
    /\ \E s1, s2 \in RunStatus :
          store = save(save(<<>>, RunState(1, NoSession, "Acme Corp", s1,
                                           None, 0)),
                       RunState(2, NoSession, "Acme Corp", s2, None, 0))
    /\ uuid = 2
    /\ ops = 0
    /\ clock = 0
    /\ pc = [p \in Callers |-> "idle"]
    /\ req = [p \in Callers |-> NoReq]
    /\ run = [p \in Callers |-> <<>>]
    /\ resp = [p \in Callers |-> NoResp]

PairStep(p) ==
    \/ \E id \in RunIdsIn : PauseLoad(p, id)
    \/ PauseSave(p)
    \/ \E id \in RunIdsIn, d \in ResumeData : ResumeLoad(p, id, d)
    \/ ResumeSave(p)
    \/ \E id \in RunIdsIn, a \in BOOLEAN, r \in Responders, c \in Comments :
          ApprovalLoad(p, id, a, r, c)
    \/ ApprovalSave(p)

PairNext == Tick \/ \E p \in Callers : PairStep(p)

\* ---- direct use of the provisioning step executors ----------------------
\* provision_slack, provision_github, provision_newsletter, provision_grants
Systems == {"slack", "github", "newsletter", "grants"}

TextsIn ==
    {<<"A", "b", " ", "C">>, <<" ", "A", "b", " ">>, <<"&", "!">>,
     <<>>, <<" ", "\t">>}

\* what a caller can put under company_name
NamesIn == {PyStr(t) : t \in TextsIn} \cup {PyNone, PyInt(0), PyInt(123)}

\* step_input.input: a str, a mapping, None, a number
InputsIn ==
    NamesIn
    \cup {PyDict(<<(<<"company_name", v>>)>>) : v \in NamesIn}
    \cup {PyDict(<<>>), PyDict(<<(<<"company", PyStr(<<"A", "b">>)>>)>>)}

\* a StepInput, or an object without the attribute input
StepInputsIn ==
    {[has_input |-> TRUE, input |-> v] : v \in InputsIn}
    \cup {[has_input |-> FALSE, input |-> PyNone]}

\* call p runs the executor of system on step_input
Provision(p, system, step_input) ==
    /\ Accept(p)
    /\ pc' = [pc EXCEPT ![p] = "done"]
    /\ req' = [req EXCEPT ![p] = [op |-> "provision", system |-> system,
                                  step_input |-> step_input]]
    /\ resp' = [resp EXCEPT ![p] = [op |-> "provision",
                                    outcome |-> executor(system, step_input)]]
    /\ UNCHANGED <<store, uuid, clock, run>>

ProvisionNext ==
    \E p \in Callers, system \in Systems, step_input \in StepInputsIn :
        Provision(p, system, step_input)

SpecProvision == Init /\ [][ProvisionNext]_vars

SpecPair == InitPair /\ [][PairNext]_vars

\* A RunState built directly, then used through its methods.
InitRunState ==
    /\ store = <<>>
    /\ uuid = 1
    /\ ops = 0
    /\ clock = 0
    /\ pc = [p \in Callers |-> "idle"]
    /\ req = [p \in Callers |-> NoReq]
    /\ \E r \in RunStatesIn : run = [p \in Callers |-> <<r>>]
    /\ resp = [p \in Callers |-> NoResp]

RunStateStep(p) ==
    \/ \E s \in StepNames : GetRetryCount(p, s)
    \/ \E s \in StepNames : IncrementRetry(p, s)
    \/ \E t \in {EV_PAUSED, EV_RESUMED} : AppendEvent(p, t)
    \/ GetStepResults(p)
    \/ ToContext(p)
    \/ SaveLoadToContext(p)

RunStateNext == \E p \in Callers : RunStateStep(p)

SpecRunState == InitRunState /\ [][RunStateNext]_vars

\* ---- what the properties read ------------------------------------------
\* the run stored under id, as load returns it
Stored(id) == model_validate_json(store[id].state_json)

\* the run stored under id after the step
StoredNext(id) == model_validate_json(store'[id].state_json)

\* the stored rows that hold idempotency key k
Holders(k) == {id \in DOMAIN store : store[id].idempotency_key = k}

\* request p arrives in this step as an op request
Arrives(p, op) == pc[p] = "idle" /\ pc'[p] # "idle" /\ req'[p].op = op

\* request p got its response to an op request
Answered(p, op) == pc[p] = "done" /\ req[p].op = op

\* ---- C1 ----------------------------------------------------------------
\* C1: whenever a launch carrying a non-null idempotency key has returned,
\* in any interleaving with the other requests, it returned 200, exactly one
\* stored run holds that key, and the response carries that run's run_id;
\* so all launches with one key receive the same run_id and none an error.
C1_OneRunPerKey ==
    \A p \in Callers :
        (Answered(p, "launch") /\ req[p].idempotency_key # None) =>
            /\ resp[p].code = 200
            /\ Holders(req[p].idempotency_key) = {resp[p].run_id}

\* two launches with one key have both returned, one having created the run
C1_Witness ==
    \E p, q \in Callers :
        /\ p # q
        /\ Answered(p, "launch") /\ Answered(q, "launch")
        /\ req[p].idempotency_key # None
        /\ req[q].idempotency_key = req[p].idempotency_key
        /\ resp[p].message = "Run launched."
        /\ resp[q].message = "Run already exists (idempotent)."
        /\ resp[q].run_id = resp[p].run_id

\* ---- C2 ----------------------------------------------------------------
\* C2: in every reachable state no two stored rows with different run_id
\* hold the same non-null idempotency_key.
C2_KeyUnique ==
    \A a, b \in DOMAIN store :
        (a # b /\ store[a].idempotency_key # None) =>
            store[a].idempotency_key # store[b].idempotency_key

\* a row holds a key and a direct save of another run with that key was
\* refused
C2_Witness ==
    \E a \in DOMAIN store, p \in Callers :
        /\ store[a].idempotency_key # None
        /\ Answered(p, "save")
        /\ req[p].idempotency_key = store[a].idempotency_key
        /\ req[p].run_id # a
        /\ resp[p].message = "IntegrityError"

\* ---- C3 ----------------------------------------------------------------
\* C3: a launch that arrives when a stored run already holds its key
\* returns at once with 200, that run's run_id and its stored status, and
\* leaves the whole store unchanged (no run created, no event appended),
\* whatever company_name and session_id it carries and whatever the status.
C3_ReplayStep ==
    \A p \in Callers :
        (/\ Arrives(p, "launch")
         /\ req'[p].idempotency_key # None
         /\ Holders(req'[p].idempotency_key) # {}) =>
            /\ pc'[p] = "done"
            /\ resp'[p].code = 200
            /\ Holders(req'[p].idempotency_key) = {resp'[p].run_id}
            /\ resp'[p].status = Stored(resp'[p].run_id).status
            /\ resp'[p].status = store[resp'[p].run_id].status
            /\ store' = store

C3_Replay == [][C3_ReplayStep]_vars

\* a launch was replayed against a terminal run of another company
C3_Witness ==
    \E p \in Callers :
        /\ Answered(p, "launch")
        /\ resp[p].message = "Run already exists (idempotent)."
        /\ resp[p].run_id \in DOMAIN store
        /\ store[resp[p].run_id].company_name # req[p].company_name
        /\ store[resp[p].run_id].session_id # req[p].session_id
        /\ store[resp[p].run_id].status = COMPLETED
        /\ resp[p].status = COMPLETED

\* ---- C4 ----------------------------------------------------------------
\* C4: every launch without an idempotency key that has returned created a
\* run of its own: it returned 200 as a new launch, its run is stored, and
\* no other request's launch returned the same run_id.
C4_NoKeyNoDedup ==
    \A p \in Callers :
        (Answered(p, "launch") /\ req[p].idempotency_key = None) =>
            /\ resp[p].code = 200
            /\ resp[p].message = "Run launched."
            /\ resp[p].run_id \in DOMAIN store
            /\ \A q \in Callers \ {p} :
                  Answered(q, "launch") => resp[q].run_id # resp[p].run_id

\* two launches without key, same company_name and session_id, both done
C4_Witness ==
    \E p, q \in Callers :
        /\ p # q
        /\ Answered(p, "launch") /\ Answered(q, "launch")
        /\ req[p].idempotency_key = None /\ req[q].idempotency_key = None
        /\ req[p].company_name = req[q].company_name
        /\ req[p].session_id = req[q].session_id
        /\ req[p].session_id # NoSession
        /\ {resp[p].run_id, resp[q].run_id} \subseteq DOMAIN store

\* ---- C5 ----------------------------------------------------------------
\* C5: the step in which a launch creates its run adds exactly one row,
\* under a run_id that was not stored, with status running and an event log
\* of exactly one user_input event carrying the request's company_name, and
\* leaves every row stored before unchanged.
C5_CreateStep ==
    \A p \in Callers :
        (/\ pc[p] = "launch_insert"
         /\ pc'[p] = "done"
         /\ resp'[p].message = "Run launched.") =>
            LET id == resp'[p].run_id
            IN  /\ id \notin DOMAIN store
                /\ DOMAIN store' = DOMAIN store \cup {id}
                /\ \A o \in DOMAIN store : store'[o] = store[o]
                /\ store'[id].status = RUNNING
                /\ store'[id].run_id = id
                /\ StoredNext(id).run_id = id
                /\ StoredNext(id).status = RUNNING
                /\ resp'[p].status = RUNNING
                /\ Len(StoredNext(id).events) = 1
                /\ StoredNext(id).events[1].event_type = USER_INPUT
                /\ StoredNext(id).events[1].data =
                       <<(<<"company_name", req[p].company_name>>)>>

C5_Create == [][C5_CreateStep]_vars

\* a launch created a run next to a run stored before it
C5_Witness ==
    \E p \in Callers :
        /\ Answered(p, "launch")
        /\ resp[p].message = "Run launched."
        /\ resp[p].run_id \in DOMAIN store
        /\ \E o \in DOMAIN store : o < resp[p].run_id

\* the log grew by exactly one event, of type event_type, placed last
Appended(before, after, event_type) ==
    /\ Len(after) = Len(before) + 1
    /\ SubSeq(after, 1, Len(before)) = before
    /\ after[Len(after)].event_type = event_type

\* the step in which the handler of request p saves and returns
Saves(p, label) == pc[p] = label /\ pc'[p] = "done"

\* ---- C6 ----------------------------------------------------------------
\* C6: a pause request that arrives for a stored run whose status is
\* paused, awaiting_approval, completed or failed is answered 409 in that
\* step and the store is left as it was (status, event log and updated_at
\* of the run included).
C6_PauseRejectedStep ==
    \A p \in Callers :
        (/\ Arrives(p, "pause")
         /\ req'[p].run_id \in DOMAIN store
         /\ Stored(req'[p].run_id).status
               \in {PAUSED, AWAITING_APPROVAL, COMPLETED, FAILED}) =>
            /\ pc'[p] = "done"
            /\ resp'[p].code = 409
            /\ store' = store

C6_PauseRejected == [][C6_PauseRejectedStep]_vars

\* a pause of a completed run was answered 409
C6_Witness ==
    \E p \in Callers :
        /\ Answered(p, "pause")
        /\ resp[p].code = 409
        /\ req[p].run_id \in DOMAIN store
        /\ Stored(req[p].run_id).status = COMPLETED

\* ---- C7 ----------------------------------------------------------------
\* C7: with requests served one at a time, a pause request for a stored run
\* whose status is running is not refused, and its save returns 200, sets
\* the stored status (column and serialized run) to paused and extends the
\* stored event log by exactly one event, of type paused, placed last, the
\* earlier events unchanged; no other row changes.
C7_PauseStep ==
    \A p \in Callers :
        /\ (/\ Arrives(p, "pause")
            /\ req'[p].run_id \in DOMAIN store
            /\ Stored(req'[p].run_id).status = RUNNING) =>
               pc'[p] = "pause_save"
        /\ Saves(p, "pause_save") =>
               LET id == req[p].run_id
               IN  /\ Stored(id).status = RUNNING
                   /\ resp'[p].code = 200
                   /\ resp'[p].status = PAUSED
                   /\ store'[id].status = PAUSED
                   /\ StoredNext(id).status = PAUSED
                   /\ Appended(Stored(id).events, StoredNext(id).events,
                               EV_PAUSED)
                   /\ DOMAIN store' = DOMAIN store
                   /\ \A o \in DOMAIN store \ {id} : store'[o] = store[o]

C7_Pause == [][C7_PauseStep]_vars

\* a launched run was paused: two events, the second one paused
C7_Witness ==
    \E p \in Callers :
        /\ Answered(p, "pause")
        /\ resp[p].code = 200
        /\ Stored(req[p].run_id).status = PAUSED
        /\ Len(Stored(req[p].run_id).events) = 2
        /\ Stored(req[p].run_id).events[1].event_type = USER_INPUT
        /\ Stored(req[p].run_id).events[2].event_type = EV_PAUSED

\* ---- C8 ----------------------------------------------------------------
\* C8: with requests served one at a time, a resume request goes on to save
\* exactly when its run is stored with status paused or awaiting_approval,
\* and is answered 404 or 409 otherwise; the save returns 200, sets the
\* stored status to running and extends the stored event log by exactly one
\* event, of type resumed, placed last and carrying the request's data.
C8_ResumeStep ==
    \A p \in Callers :
        /\ Arrives(p, "resume") =>
               /\ pc'[p] = "resume_save" <=>
                     /\ req'[p].run_id \in DOMAIN store
                     /\ Stored(req'[p].run_id).status
                           \in {PAUSED, AWAITING_APPROVAL}
               /\ pc'[p] # "resume_save" =>
                     /\ pc'[p] = "done"
                     /\ resp'[p].code \in {404, 409}
                     /\ store' = store
        /\ Saves(p, "resume_save") =>
               LET id == req[p].run_id
               IN  /\ Stored(id).status \in {PAUSED, AWAITING_APPROVAL}
                   /\ resp'[p].code = 200
                   /\ resp'[p].status = RUNNING
                   /\ store'[id].status = RUNNING
                   /\ StoredNext(id).status = RUNNING
                   /\ Appended(Stored(id).events, StoredNext(id).events,
                               EV_RESUMED)
                   /\ StoredNext(id).events[Len(StoredNext(id).events)].data
                         = req[p].data

C8_Resume == [][C8_ResumeStep]_vars

\* a run awaiting approval was resumed with data {note: go}
C8_Witness ==
    \E p \in Callers :
        /\ Answered(p, "resume")
        /\ resp[p].code = 200
        /\ req[p].data = <<(<<"note", "go">>)>>
        /\ Stored(req[p].run_id).status = RUNNING
        /\ Stored(req[p].run_id).events[1].event_type = EV_RESUMED
        /\ \E q \in Callers :
              /\ Answered(q, "save")
              /\ resp[q].run_id = req[p].run_id
              /\ resp[q].status = AWAITING_APPROVAL

\* ---- C9 ----------------------------------------------------------------
\* C9: with requests served one at a time, the approval webhook goes on to
\* save exactly when its run is stored with status awaiting_approval, and is
\* answered 404 or 409 otherwise; the save returns 200, appends exactly one
\* approval_received event whose data.approved is the payload's flag, and
\* sets the stored status to running when approved and to failed when not.
C9_ApprovalStep ==
    \A p \in Callers :
        /\ Arrives(p, "approval") =>
               /\ pc'[p] = "approval_save" <=>
                     /\ req'[p].run_id \in DOMAIN store
                     /\ Stored(req'[p].run_id).status = AWAITING_APPROVAL
               /\ pc'[p] # "approval_save" =>
                     /\ pc'[p] = "done"
                     /\ resp'[p].code \in {404, 409}
        /\ Saves(p, "approval_save") =>
               LET id == req[p].run_id
                   want == IF req[p].approved THEN RUNNING ELSE FAILED
               IN  /\ Stored(id).status = AWAITING_APPROVAL
                   /\ resp'[p].code = 200
                   /\ resp'[p].status = want
                   /\ store'[id].status = want
                   /\ StoredNext(id).status = want
                   /\ Appended(Stored(id).events, StoredNext(id).events,
                               APPROVAL_RECEIVED)
                   /\ <<"approved", req[p].approved>> \in items(
                         StoredNext(id).events[Len(StoredNext(id).events)].data)

C9_Approval == [][C9_ApprovalStep]_vars

\* an approval was denied: the run is failed and the event says approved=false
C9_Witness ==
    \E p \in Callers :
        /\ Answered(p, "approval")
        /\ resp[p].code = 200
        /\ ~req[p].approved
        /\ Stored(req[p].run_id).status = FAILED
        /\ <<"approved", FALSE>> \in items(Stored(req[p].run_id).events[1].data)

\* ---- C10 ---------------------------------------------------------------
\* C10: the step in which a resume or approval request is answered 409
\* leaves the whole store as it was: the run's status, event log and
\* updated_at, and every other stored run.
C10_RejectedStep ==
    \A p \in Callers :
        (/\ pc[p] = "idle"
         /\ pc'[p] = "done"
         /\ resp'[p].op \in {"resume", "approval"}
         /\ resp'[p].code = 409) =>
            /\ store' = store
            /\ req'[p].run_id \in DOMAIN store
            /\ StoredNext(req'[p].run_id) = Stored(req'[p].run_id)

C10_Rejected == [][C10_RejectedStep]_vars

\* an approval of a launched, still running run was refused some time after
\* the launch
C10_Witness ==
    \E p \in Callers :
        /\ Answered(p, "approval") /\ resp[p].code = 409
        /\ resp[p].status = RUNNING
        /\ Len(Stored(req[p].run_id).events) = 1
        /\ Stored(req[p].run_id).updated_at < clock

\* ---- C11 ---------------------------------------------------------------
\* C11: a get, pause, resume or approval request that arrives naming a
\* run_id with no stored row is answered 404 in that step, and the store is
\* left exactly as it was (no row created, none changed).
C11_NotFoundStep ==
    \A p \in Callers :
        (/\ pc[p] = "idle"
         /\ pc'[p] # "idle"
         /\ req'[p].op \in {"get", "pause", "resume", "approval"}
         /\ req'[p].run_id \notin DOMAIN store) =>
            /\ pc'[p] = "done"
            /\ resp'[p].code = 404
            /\ store' = store

C11_NotFound == [][C11_NotFoundStep]_vars

\* with a run stored, a get of another run_id was answered 404
C11_Witness ==
    \E p \in Callers :
        /\ Answered(p, "get")
        /\ resp[p].code = 404
        /\ DOMAIN store # {}
        /\ req[p].run_id \notin DOMAIN store

\* ---- C12 ---------------------------------------------------------------
\* the statuses a detail identifies: the interpolated status values, and the
\* status its fixed text spells out
NamedByText(piece) ==
    IF piece = "Run is not awaiting approval (status: "
    THEN {AWAITING_APPROVAL} ELSE {}

Named(detail) ==
    UNION {({detail[i]} \cap RunStatus) \cup NamedByText(detail[i]) :
              i \in DOMAIN detail}

\* the statuses from which the operation goes on
Required(op) ==
    {s \in RunStatus :
        IF op = "pause" THEN pause_allowed(s)
        ELSE IF op = "resume" THEN resume_allowed(s)
        ELSE approval_allowed(s)}

\* C12: every 409 answer of pause, resume or the approval webhook has a
\* detail that identifies the status the run was found in and also the
\* status or statuses the operation requires.
C12_ConflictNamesBoth ==
    \A p \in Callers :
        (/\ pc[p] = "done"
         /\ resp[p].op \in {"pause", "resume", "approval"}
         /\ resp[p].code = 409) =>
            /\ resp[p].status \in Named(resp[p].detail)
            /\ Required(resp[p].op) \subseteq Named(resp[p].detail)

\* a pause of a paused run was answered 409
C12_Witness ==
    \E p \in Callers :
        /\ Answered(p, "pause")
        /\ resp[p].code = 409
        /\ resp[p].detail = <<"Cannot pause run in status '", PAUSED, "'.">>

\* ---- C13 ---------------------------------------------------------------
\* C13: once a stored run is completed or failed, no step changes its stored
\* status (column or serialized run) or its stored event log, whatever
\* requests run concurrently.
C13_TerminalStep ==
    \A id \in DOMAIN store :
        store[id].status \in {COMPLETED, FAILED} =>
            /\ store'[id].status = store[id].status
            /\ StoredNext(id).status = Stored(id).status
            /\ StoredNext(id).events = Stored(id).events

C13_TerminalAbsorbing == [][C13_TerminalStep]_vars

\* ---- C14 ---------------------------------------------------------------
\* the status changes of the lifecycle state machine
Transitions ==
    {<<RUNNING, PAUSED>>, <<PAUSED, RUNNING>>,
     <<AWAITING_APPROVAL, RUNNING>>, <<AWAITING_APPROVAL, FAILED>>}

\* C14: every step that changes the stored status of a run changes it
\* running -> paused, paused -> running, awaiting_approval -> running or
\* awaiting_approval -> failed, whatever requests run concurrently.
C14_TransitionStep ==
    \A id \in DOMAIN store :
        store'[id].status # store[id].status =>
            <<store[id].status, store'[id].status>> \in Transitions

C14_OnlyTransitions == [][C14_TransitionStep]_vars

\* ---- C15 ---------------------------------------------------------------
\* sequence a is a prefix of sequence b
IsPrefix(a, b) == Len(a) <= Len(b) /\ SubSeq(b, 1, Len(a)) = a

\* C15: in every step the event log stored for a run before the step is a
\* prefix of the log stored for it after the step, whatever requests run
\* concurrently.
C15_AppendOnlyStep ==
    \A id \in DOMAIN store :
        IsPrefix(Stored(id).events, StoredNext(id).events)

C15_AppendOnly == [][C15_AppendOnlyStep]_vars

\* ---- C16 ---------------------------------------------------------------
\* the run stored under id after the step was created by a launch
LaunchedNext(id) ==
    \E p \in Callers :
        /\ pc'[p] = "done"
        /\ req'[p].op = "launch"
        /\ resp'[p].message = "Run launched."
        /\ resp'[p].run_id = id

\* the last event of a log among user_input, paused, resumed and
\* approval_received, as <<event>>, or <<>> when there is none
LastLifecycleEvent(events) ==
    LET at == {i \in DOMAIN events :
                  events[i].event_type \in
                      {USER_INPUT, EV_PAUSED, EV_RESUMED, APPROVAL_RECEIVED}}
    IN  IF at = {} THEN <<>>
        ELSE <<events[CHOOSE i \in at : \A j \in at : j <= i]>>

\* C16: after every step, each stored run that a launch created has a status
\* that agrees with its stored log: the status column equals the serialized
\* status; the status is paused exactly when the last lifecycle event is
\* paused; it is failed only when that event is approval_received with
\* approved = false; and a step that changes the stored status changes the
\* stored log with it.
C16_ConsistentStep ==
    \A id \in DOMAIN store' :
        LaunchedNext(id) =>
            LET r == StoredNext(id)
                last == LastLifecycleEvent(r.events)
            IN  /\ store'[id].status = r.status
                /\ Len(last) = 1
                /\ (r.status = PAUSED) <=> (last[1].event_type = EV_PAUSED)
                /\ (r.status = FAILED) =>
                      /\ last[1].event_type = APPROVAL_RECEIVED
                      /\ <<"approved", FALSE>> \in items(last[1].data)
                /\ (id \in DOMAIN store /\ Stored(id).status # r.status) =>
                      Stored(id).events # r.events

C17_RoundTripStep ==
    \A p \in Callers :
        (/\ pc[p] = "idle"
         /\ pc'[p] = "done"
         /\ req'[p].op \in {"save_new", "update"}
         /\ resp'[p].code = 200) =>
            LET r == run'[p][1]
                loaded == load(store', r.run_id)
            IN  /\ Len(loaded) = 1
                /\ loaded[1].run_id = r.run_id
                /\ loaded[1].status = r.status
                /\ loaded[1].events = r.events
                /\ loaded[1].retry_counts = r.retry_counts
                /\ (req'[p].op = "update") <=> (r.run_id \in DOMAIN store)

C18_DuplicateKeyStep ==
    \A p \in Callers :
        (/\ Arrives(p, "save_new")
         /\ req'[p].run_id \notin DOMAIN store
         /\ req'[p].idempotency_key # None
         /\ Holders(req'[p].idempotency_key) # {}) =>
            /\ resp'[p].code = 500
            /\ resp'[p].message = "IntegrityError"
            /\ store' = store

C18_DuplicateKey == [][C18_DuplicateKeyStep]_vars

\* a run with a held key was refused; the one holder of the key is a
\* completed run, still stored
C18_Witness ==
    \E p \in Callers :
        /\ Answered(p, "save_new")
        /\ resp[p].message = "IntegrityError"
        /\ resp[p].run_id \notin DOMAIN store
        /\ \E h \in DOMAIN store :
              /\ Holders(req[p].idempotency_key) = {h}
              /\ store[h].status = COMPLETED

\* ---- C19 ---------------------------------------------------------------
\* the stored runs, as load returns them, after the step
RunsNext == {StoredNext(id) : id \in DOMAIN store'}

\* C19: after every step list_active returns exactly the stored runs whose
\* status is running, paused or awaiting_approval, which is list_all without
\* the completed and failed runs; and a GET /runs that arrives without a
\* status filter is answered 200 with exactly those runs of the store it
\* read.
C19_ListActiveStep ==
    /\ list_active(store') =
           {r \in RunsNext : r.status \in {RUNNING, PAUSED, AWAITING_APPROVAL}}
    /\ list_all(store') = RunsNext
    /\ list_active(store') =
           list_all(store') \ {r \in list_all(store') :
                                   r.status \in {COMPLETED, FAILED}}
    /\ \A p \in Callers :
          (Arrives(p, "list") /\ req'[p].status = None) =>
              /\ resp'[p].code = 200
              /\ resp'[p].body =
                     {RunStateResponse(Stored(id)) :
                         id \in {i \in DOMAIN store :
                                    Stored(i).status \in
                                      {RUNNING, PAUSED, AWAITING_APPROVAL}}}

C19_ListActive == [][C19_ListActiveStep]_vars

\* a failed and an awaiting_approval run are stored; list_active returns the
\* second alone
C19_Witness ==
    \E a, b \in DOMAIN store :
        /\ Stored(a).status = FAILED
        /\ Stored(b).status = AWAITING_APPROVAL
        /\ list_active(store) = {Stored(b)}
        /\ Cardinality(list_all(store)) = 2

\* ---- C20 ---------------------------------------------------------------
\* C20: a GET /runs that arrives with a status filter equal to one of the
\* five statuses is answered 200 with exactly the runs of the store whose
\* status equals the filter: each of them and no other.
C20_ListByStatusStep ==
    \A p \in Callers :
        (Arrives(p, "list") /\ req'[p].status \in RunStatus) =>
            /\ resp'[p].code = 200
            /\ resp'[p].body =
                   {RunStateResponse(Stored(id)) :
                       id \in {i \in DOMAIN store :
                                  Stored(i).status = req'[p].status}}

C20_ListByStatus == [][C20_ListByStatusStep]_vars

\* a list filtered by completed returned the one stored completed run
C20_Witness ==
    \E p \in Callers :
        /\ Answered(p, "list")
        /\ req[p].status = COMPLETED
        /\ resp[p].code = 200
        /\ \E id \in DOMAIN store :
              /\ Stored(id).status = COMPLETED
              /\ resp[p].body = {RunStateResponse(Stored(id))}

\* ---- C21 ---------------------------------------------------------------
\* C21: a GET /runs that arrives with a status value that is supplied and
\* is not one of the five statuses is answered 400, never with a list of
\* runs, and the store is left as it was.
C21_InvalidFilterStep ==
    \A p \in Callers :
        (/\ Arrives(p, "list")
         /\ req'[p].status # None
         /\ req'[p].status \notin RunStatus) =>
            /\ resp'[p].code = 400
            /\ store' = store

C21_InvalidFilter == [][C21_InvalidFilterStep]_vars

\* GET /runs?status= (the empty value) was answered 200 with the active
\* runs, here one running run
C21_Witness ==
    \E p \in Callers :
        /\ Answered(p, "list")
        /\ req[p].status = ""
        /\ resp[p].code = 200
        /\ Cardinality(resp[p].body) = 1

\* ---- C22 ---------------------------------------------------------------
\* the requests that paused, resumed or approved run id and returned success
Successes(id) ==
    {p \in Callers :
        /\ pc[p] = "done"
        /\ req[p].op \in {"pause", "resume", "approval"}
        /\ req[p].run_id = id
        /\ resp[p].code = 200}

\* run id was stored by a launch, not by a direct save
LaunchCreated(id) ==
    ~ \E p \in Callers : Answered(p, "save") /\ resp[p].run_id = id

\* C22: with requests served one at a time, the stored log of every
\* launched run has 1 + n events, n the number of pause, resume and approval
\* requests on that run that returned success; requests answered 404 or 409
\* add nothing.
C22_EventCount ==
    \A id \in DOMAIN store :
        LaunchCreated(id) =>
            /\ Len(Stored(id).events) = 1 + Cardinality(Successes(id))
            /\ Stored(id).events[1].event_type = USER_INPUT

\* a launched run was paused and then an approval for it was refused: two
\* events
C22_Witness ==
    \E p, q \in Callers, id \in DOMAIN store :
        /\ Answered(p, "pause") /\ resp[p].code = 200 /\ req[p].run_id = id
        /\ Answered(q, "approval") /\ resp[q].code = 409
        /\ req[q].run_id = id
        /\ LaunchCreated(id)
        /\ Len(Stored(id).events) = 2

\* ---- C23 ---------------------------------------------------------------
\* C23: after every step each stored run has updated_at >= created_at, in
\* the serialized run and in the columns, and no step lowers the stored
\* updated_at of a run, whatever requests run concurrently.
C23_UpdatedAtStep ==
    \A id \in DOMAIN store' :
        /\ StoredNext(id).updated_at >= StoredNext(id).created_at
        /\ store'[id].updated_at >= store'[id].created_at
        /\ id \in DOMAIN store =>
              /\ StoredNext(id).updated_at >= Stored(id).updated_at
              /\ store'[id].updated_at >= store[id].updated_at

C23_UpdatedAt == [][C23_UpdatedAtStep]_vars

\* ---- C24 ---------------------------------------------------------------
\* C24: whenever a pause, resume or approval request saves and returns
\* success, the status stored for its run at that moment, the one the save
\* overwrites, is a status the operation is allowed from, whatever requests
\* run concurrently.
C24_AtomicStep ==
    \A p \in Callers :
        /\ Saves(p, "pause_save") =>
               pause_allowed(Stored(req[p].run_id).status)
        /\ Saves(p, "resume_save") =>
               resume_allowed(Stored(req[p].run_id).status)
        /\ Saves(p, "approval_save") =>
               approval_allowed(Stored(req[p].run_id).status)

C24_Atomic == [][C24_AtomicStep]_vars

\* ---- C25 ---------------------------------------------------------------
\* the save labels of the lifecycle handlers
SaveLabels == {"pause_save", "resume_save", "approval_save"}

\* the status guard of the handler that stands at label
AllowedAt(label, status) ==
    IF label = "pause_save" THEN pause_allowed(status)
    ELSE IF label = "resume_save" THEN resume_allowed(status)
    ELSE approval_allowed(status)

\* C25: a step changes no stored run other than the one named by the
\* request that saves in it, and adds no row.  And when no other request
\* received so far names the same run_id, the save of a pause, resume or
\* approval writes what the handler would write had it loaded the run in
\* that very step: the stored status is one it is allowed from, and the
\* saved run is the stored run with the new status and one more event.  So
\* requests on distinct run_ids, however interleaved, leave the store and
\* return the responses of some one-after-another execution.
C25_IndependentStep ==
    /\ DOMAIN store' = DOMAIN store
    /\ \A id \in DOMAIN store :
          store'[id] # store[id] =>
              \E p \in Callers :
                  pc[p] \in SaveLabels /\ pc'[p] = "done" /\ req[p].run_id = id
    /\ \A p \in Callers :
          (/\ pc[p] \in SaveLabels
           /\ pc'[p] = "done"
           /\ \A q \in Callers \ {p} :
                 pc[q] # "idle" => req[q].run_id # req[p].run_id) =>
              LET id == req[p].run_id
                  r == run[p][1]
                  n == Len(r.events)
              IN  /\ AllowedAt(pc[p], Stored(id).status)
                  /\ n = Len(Stored(id).events) + 1
                  /\ [r EXCEPT !.events = SubSeq(r.events, 1, n - 1),
                               !.status = Stored(id).status,
                               !.updated_at = Stored(id).updated_at]
                        = Stored(id)
                  /\ StoredNext(id) = r
                  /\ resp'[p].code = 200

C25_Independent == [][C25_IndependentStep]_vars

\* a pause of one run was saved while a resume of the other run, loaded
\* earlier, is still to be saved
C25_Witness ==
    \E p, q \in Callers :
        /\ Answered(p, "pause") /\ resp[p].code = 200
        /\ pc[q] = "resume_save"
        /\ req[q].run_id # req[p].run_id
        /\ run[q][1].updated_at < Stored(req[p].run_id).updated_at

\* ---- C26 ---------------------------------------------------------------
\* C26: a save of a run r whose run_id is stored adds no row, leaves every
\* other row as it was, sets the row's status, state_json, company_name and
\* updated_at to those of r, and leaves the row's run_id, session_id,
\* idempotency_key and created_at columns as they were, whatever r holds in
\* those fields.
C26_OverwriteStep ==
    \A p \in Callers :
        Arrives(p, "update") =>
            LET id == req'[p].run_id
                r == run'[p][1]
            IN  /\ id \in DOMAIN store
                /\ DOMAIN store' = DOMAIN store
                /\ \A o \in DOMAIN store \ {id} : store'[o] = store[o]
                /\ store'[id].status = r.status
                /\ store'[id].state_json = model_dump_json(r)
                /\ store'[id].company_name = r.company_name
                /\ store'[id].updated_at = r.updated_at
                /\ store'[id].run_id = store[id].run_id
                /\ store'[id].session_id = store[id].session_id
                /\ store'[id].idempotency_key = store[id].idempotency_key
                /\ store'[id].created_at = store[id].created_at

C26_Overwrite == [][C26_OverwriteStep]_vars

\* a stored run was overwritten by a run with another session_id,
\* company_name, idempotency_key and a later created_at: the row took the
\* company_name and kept the other three
C26_Witness ==
    \E p \in Callers :
        /\ Answered(p, "update")
        /\ LET id == req[p].run_id
               r == run[p][1]
           IN  /\ store[id].company_name = "Beta Inc"
               /\ r.company_name = "Beta Inc"
               /\ store[id].session_id # r.session_id
               /\ store[id].idempotency_key # r.idempotency_key
               /\ store[id].created_at < r.created_at

\* ---- C27 ---------------------------------------------------------------
\* C27: in every reachable state each column of every row equals the field
\* of that name of the run serialized in the row.
C27_DerivedIndex ==
    \A id \in DOMAIN store :
        /\ store[id].run_id = Stored(id).run_id
        /\ store[id].session_id = Stored(id).session_id
        /\ store[id].company_name = Stored(id).company_name
        /\ store[id].status = Stored(id).status
        /\ store[id].idempotency_key = Stored(id).idempotency_key
        /\ store[id].created_at = Stored(id).created_at
        /\ store[id].updated_at = Stored(id).updated_at

\* ---- C28 ---------------------------------------------------------------
\* the keys looked up: the keys writers use and one nobody uses
KeysAsked == Keys \cup {"idem-456", "nonexistent"}

\* C28: in every reachable state, for every key k, find_by_idempotency_key
\* returns a run exactly when some stored run holds k; the run it returns
\* holds k and is the only stored run that does.
C28_FindByKey ==
    \A k \in KeysAsked :
        LET found == find_by_idempotency_key(store, k)
            holders == {id \in DOMAIN store : Stored(id).idempotency_key = k}
        IN  /\ (Len(found) = 1) <=> (holders # {})
            /\ (Len(found) = 1) =>
                  /\ found[1].idempotency_key = k
                  /\ holders = {found[1].run_id}
                  /\ found[1] = Stored(found[1].run_id)

\* ---- C29 ---------------------------------------------------------------
\* the session ids looked up
SessionsAsked == (SessionsIn \ {NoSession}) \cup {<<"given", 2>>}

\* C29: in every reachable state, for every session id s, find_by_session
\* returns exactly the stored runs whose session_id is s.
C29_FindBySession ==
    \A sid \in SessionsAsked :
        find_by_session(store, sid) =
            {Stored(id) : id \in {i \in DOMAIN store :
                                     Stored(i).session_id = sid}}

\* ---- C30 ---------------------------------------------------------------
\* C30: in every reachable state, in the event log of every stored run the
\* timestamps never decrease from one event to the next and no event is
\* stamped before the run's created_at, whatever requests run concurrently.
C30_EventTimestamps ==
    \A id \in DOMAIN store :
        LET r == Stored(id)
        IN  \A i \in 1..Len(r.events) :
                /\ r.events[i].timestamp >= r.created_at
                /\ i > 1 => r.events[i - 1].timestamp <= r.events[i].timestamp

\* a launched run changed again after the clock moved: two events with
\* different timestamps
C30_Witness ==
    \E id \in DOMAIN store :
        LET r == Stored(id)
        IN  /\ LaunchCreated(id)
            /\ Len(r.events) = 2
            /\ r.created_at = 0
            /\ r.events[1].timestamp < r.events[2].timestamp

\* ---- C31 ---------------------------------------------------------------
\* the steps that have an entry in the run's retry_counts
Counted(r) == {e[1] : e \in r.retry_counts}

\* C31: no call on a RunState lowers a retry count or makes one negative;
\* get_retry_count returns 0 for a step with no entry and changes nothing;
\* increment_retry(step) returns the old count plus 1, which is the step's
\* new count, and leaves the other steps' counts, the status and the event
\* log as they were.
C31_RetryStep ==
    \A p \in Callers :
        pc[p] = "idle" /\ pc'[p] = "done" =>
            LET before == Cur
                after == run'[p][1]
                step == req'[p].step_name
            IN  /\ \A s \in StepNames :
                      /\ get_retry_count(before, s) >= 0
                      /\ get_retry_count(after, s) >= get_retry_count(before, s)
                /\ Arrives(p, "get_retry_count") =>
                      /\ step \notin Counted(before) => resp'[p].value = 0
                      /\ \A e \in before.retry_counts :
                            e[1] = step => resp'[p].value = e[2]
                      /\ after = before
                /\ Arrives(p, "increment_retry") =>
                      /\ resp'[p].value = get_retry_count(before, step) + 1
                      /\ get_retry_count(after, step) = resp'[p].value
                      /\ \A s \in StepNames \ {step} :
                            get_retry_count(after, s)
                                = get_retry_count(before, s)
                      /\ after.status = before.status
                      /\ after.events = before.events

C31_Retry == [][C31_RetryStep]_vars

\* increment_retry("crm") returned 2 on a paused run that has two events and
\* a count of 2 for billing, and increment_retry("billing") returned 3
C31_Witness ==
    \E p, q \in Callers :
        /\ Answered(p, "increment_retry") /\ req[p].step_name = "crm"
        /\ resp[p].value = 2
        /\ get_retry_count(run[p][1], "billing") = 2
        /\ run[p][1].status = PAUSED /\ Len(run[p][1].events) = 2
        /\ Answered(q, "increment_retry") /\ req[q].step_name = "billing"
        /\ resp[q].value = 3

\* ---- C32 ---------------------------------------------------------------
\* the positions of the step_result events whose data.result parses
Parsed(events) ==
    {i \in DOMAIN events :
        /\ events[i].event_type = STEP_RESULT
        /\ dict_has(events[i].data, "result")
        /\ StepResult_model_validate(dict_get(events[i].data, "result"))
               # <<>>}

\* the k-th smallest member of a set of positions
RECURSIVE Nth(_, _)
Nth(S, k) ==
    LET least == CHOOSE i \in S : \A j \in S : i <= j
    IN  IF k = 1 THEN least ELSE Nth(S \ {least}, k - 1)

\* C32: get_step_results returns one StepResult for each step_result event
\* whose data.result parses, in the order of the log, and nothing for an
\* event of another type, a step_result event without result or one whose
\* result does not parse; the call returns normally and leaves the run as
\* it was.
C32_StepResultsStep ==
    \A p \in Callers :
        Arrives(p, "get_step_results") =>
            LET events == Cur.events
                results == resp'[p].value
            IN  /\ pc'[p] = "done" /\ resp'[p].code = 200
                /\ Len(results) = Cardinality(Parsed(events))
                /\ \A k \in 1..Len(results) :
                      <<results[k]>> = StepResult_model_validate(
                          dict_get(events[Nth(Parsed(events), k)].data,
                                   "result"))
                /\ run'[p][1] = Cur

C32_StepResults == [][C32_StepResultsStep]_vars

\* get_step_results returned one result, the billing one, for a log that
\* holds a step_result event whose result does not parse followed by one
\* whose result does
C32_Witness ==
    \E p \in Callers :
        /\ Answered(p, "get_step_results")
        /\ Len(run[p][1].events) = 2
        /\ Parsed(run[p][1].events) = {2}
        /\ run[p][1].events[1].event_type = STEP_RESULT
        /\ dict_has(run[p][1].events[1].data, "result")
        /\ Len(resp[p].value) = 1
        /\ resp[p].value[1].system = "billing"
        /\ resp[p].value[1].attempt = 1

\* get_step_results returned the crm result then the billing result
C32_WitnessOrder ==
    \E p \in Callers :
        /\ Answered(p, "get_step_results")
        /\ Len(resp[p].value) = 2
        /\ resp[p].value[1].system = "crm"
        /\ resp[p].value[2].system = "billing"

\* ---- C33 ---------------------------------------------------------------
\* run r with another run_id, status, retry counts and timestamps, and the
\* same event types, step names and data in the same order
Variant(r, id, st, rc, t) ==
    [r EXCEPT !.run_id = id, !.status = st, !.retry_counts = rc,
              !.created_at = t, !.updated_at = t,
              !.events = IF r.events = <<>> THEN <<>>
                         ELSE [i \in 1..Len(r.events) |->
                                  [r.events[i] EXCEPT !.timestamp = t]]]

\* the blocks of a text: what stands between its empty lines
RECURSIVE Split(_)
Split(text) ==
    IF \A i \in 1..Len(text) : text[i] # BLANK THEN <<text>>
    ELSE LET k == CHOOSE i \in 1..Len(text) :
                      /\ text[i] = BLANK
                      /\ \A j \in 1..(i - 1) : text[j] # BLANK
         IN  <<SubSeq(text, 1, k - 1)>>
                 \o Split(SubSeq(text, k + 1, Len(text)))

\* to_context returns the same text for every run with the same event
\* types, step names and data in the same order, and the text holds one
\* block per event, in the order of the log
C33_FunctionOfLogStep ==
    \A p \in Callers :
        Arrives(p, "to_context") =>
            LET text == resp'[p].value
                events == Cur.events
            IN  /\ \A id \in {1, 2}, st \in RunStatus, rc \in RetryCountsIn,
                      t \in 0..MaxClock :
                      to_context(Variant(Cur, id, st, rc, t)) = text
                /\ events = <<>> => text = <<>>
                /\ events # <<>> =>
                      /\ Len(Split(text)) = Len(events)
                      /\ \A i \in 1..Len(events) :
                            Split(text)[i] = to_context_line(events[i])

C33_FunctionOfLog == [][C33_FunctionOfLogStep]_vars

\* the text rendered after save then load is the text rendered before
C33_RoundTripStep ==
    \A p \in Callers :
        Arrives(p, "save_load_to_context") =>
            resp'[p].value = to_context(Cur)

\* C33: the rendered context depends on the event types, step names and
\* data of the log alone, in their order: runs that agree on them render
\* to the same text whatever their status, retry counts, run_id and
\* timestamps; the text holds one block per event in append order; and a
\* run renders to the same text after save then load as before.
C33_ContextStep == C33_FunctionOfLogStep /\ C33_RoundTripStep

C33_Context == [][C33_ContextStep]_vars

\* a run with two events was rendered, then saved, loaded and rendered again
C33_Witness ==
    \E p, q \in Callers :
        /\ Answered(p, "to_context") /\ Answered(q, "save_load_to_context")
        /\ q = p + 1
        /\ Len(run[q][1].events) = 2
        /\ Len(Split(resp[p].value)) = 2
        /\ resp[q].value = resp[p].value

\* ---- C34 ---------------------------------------------------------------
\* request p is in its handler, between two store calls
InFlight(p) == pc[p] \notin {"idle", "done"}

\* request p got a response of the API: success, NotFound, ConflictingState
\* or InvalidInput
Responded(p) == pc[p] = "done" /\ resp[p].code \in {200, 400, 404, 409}

LifecycleOps == {"launch", "pause", "resume", "approval", "get", "list"}

\* C34: a handler in flight can always take its next step, whatever the
\* other handlers do, so no caller waits on another; every request in
\* flight is eventually answered; and the answer of every lifecycle request
\* is a success, NotFound, ConflictingState or InvalidInput.
C34_Responds ==
    /\ [](\A p \in Callers : InFlight(p) => ENABLED <<Continue(p)>>_vars)
    /\ \A p \in Callers : InFlight(p) ~> Responded(p)
    /\ [](\A p \in Callers :
            pc[p] = "done" /\ req[p].op \in LifecycleOps => Responded(p))

\* a pause of a run has been answered while a pause of the same run that
\* was in flight with it has been answered too
C34_Witness ==
    \E p, q \in Callers :
        /\ p # q
        /\ Answered(p, "pause") /\ Responded(p) /\ resp[p].code = 200
        /\ Answered(q, "pause") /\ Responded(q) /\ resp[q].code = 200
        /\ req[p].run_id = req[q].run_id

\* a launch is about to refetch the run of its key while the launch that
\* won the key has been answered
C34_WitnessLaunch ==
    \E p, q \in Callers :
        /\ pc[q] = "launch_refetch"
        /\ Answered(p, "launch") /\ resp[p].code = 200
        /\ req[p].idempotency_key = req[q].idempotency_key

\* ---- C35 ---------------------------------------------------------------
ReadOps ==
    {"get", "list", "load", "find_by_idempotency_key", "find_by_session",
     "list_active", "list_all"}

\* C35: a step of get_run, list_runs, load, find_by_idempotency_key,
\* find_by_session, list_active or list_all leaves every row of the store
\* as it was, and a get_run that finds the run reports the status of the
\* stored run and, as event_count, the length of its stored event log.
C35_ReadsStep ==
    \A p \in Callers :
        (\E op \in ReadOps : Arrives(p, op)) =>
            /\ store' = store
            /\ Arrives(p, "get") /\ req'[p].run_id \in DOMAIN store =>
                  /\ resp'[p].code = 200
                  /\ resp'[p].body.run_id = req'[p].run_id
                  /\ resp'[p].body.status = StoredNext(req'[p].run_id).status
                  /\ resp'[p].body.event_count
                        = Len(StoredNext(req'[p].run_id).events)

C35_Reads == [][C35_ReadsStep]_vars

\* get_run reported a paused run with one event that a writer had stored
C35_Witness ==
    \E p \in Callers :
        /\ Answered(p, "get") /\ resp[p].code = 200
        /\ resp[p].body.status = PAUSED
        /\ resp[p].body.event_count = 1
        /\ Len(Stored(req[p].run_id).events) = 1

\* ---- C36 ---------------------------------------------------------------
\* C36: when a writer saves again the RunState it has just saved, unchanged,
\* the table stays as the first save left it, every row and every column,
\* and if the first save succeeded the second succeeds too.
C36_IdempotentStep ==
    \A p \in Callers :
        Arrives(p, "save_again") =>
            /\ store' = store
            /\ resp[ops].code = 200 => resp'[p].code = 200
            /\ resp[ops].code = 200 =>
                  /\ run'[p][1].run_id \in DOMAIN store'
                  /\ StoredNext(run'[p][1].run_id) =
                         model_validate_json(model_dump_json(run'[p][1]))

C36_Idempotent == [][C36_IdempotentStep]_vars

\* a run was inserted by a first save and saved again after the clock moved
C36_Witness ==
    \E p, q \in Callers :
        /\ Answered(p, "save_new") /\ resp[p].code = 200
        /\ Answered(q, "save_again") /\ resp[q].code = 200
        /\ q = p + 1
        /\ Cardinality(DOMAIN store) = 2
        /\ clock > Stored(resp[q].run_id).updated_at

\* ---- C37 ---------------------------------------------------------------
\* only the endpoints have written to the store: no request so far is a
\* direct save by another writer
ApiOnly == \A p \in Callers : req[p].op # "save"

\* C37: as long as the store, empty at the start, has been written by the
\* API endpoints alone, every stored run is running or paused, in its
\* serialized state and in its status column, no approval webhook has
\* succeeded and none is about to save.
C37_RunningOrPaused ==
    ApiOnly =>
        /\ \A id \in DOMAIN store :
              /\ Stored(id).status \in {RUNNING, PAUSED}
              /\ store[id].status \in {RUNNING, PAUSED}
        /\ \A p \in Callers :
              /\ pc[p] # "approval_save"
              /\ Answered(p, "approval") => resp[p].code \in {404, 409}

\* the approval webhook was refused for a run that the API launched
C37_Witness ==
    \E p, q \in Callers :
        /\ ApiOnly
        /\ Answered(p, "launch") /\ resp[p].code = 200
        /\ Answered(q, "approval") /\ resp[q].code = 409
        /\ req[q].run_id = resp[p].run_id

\* ---- C38 ---------------------------------------------------------------
\* the fields that identify a run
Identity(r) ==
    <<r.run_id, r.session_id, r.company_name, r.idempotency_key, r.created_at>>

\* no step removes a row
C38_NeverShrinksStep == DOMAIN store \subseteq DOMAIN store'

C38_NeverShrinks == [][C38_NeverShrinksStep]_vars

\* C38: no step removes a stored run, and every step of a lifecycle
\* operation leaves the run_id, session_id, company_name, idempotency_key
\* and created_at of every stored run as they were, in the serialized run
\* and in the columns of its row.
C38_RetainedStep ==
    /\ C38_NeverShrinksStep
    /\ \A id \in DOMAIN store :
          /\ Identity(StoredNext(id)) = Identity(Stored(id))
          /\ Identity(store'[id]) = Identity(store[id])
          /\ StoredNext(id).run_id = id

C38_Retained == [][C38_RetainedStep]_vars

\* a run launched with a session id and an idempotency key was paused and
\* still has them
C38_Witness ==
    \E p, q \in Callers, id \in DOMAIN store :
        /\ Answered(p, "launch") /\ resp[p].code = 200 /\ resp[p].run_id = id
        /\ req[p].idempotency_key = "idem-123"
        /\ req[p].session_id = <<"given", 1>>
        /\ Answered(q, "pause") /\ resp[q].code = 200 /\ req[q].run_id = id
        /\ Stored(id).status = PAUSED
        /\ Stored(id).idempotency_key = "idem-123"
        /\ Stored(id).session_id = <<"given", 1>>


\* ---- C39 ----------------------------------------------------------------
NonBlank(text) == \E i \in DOMAIN text : text[i] \notin Whitespace

\* the value the input gives as the company name: the input itself when it
\* is a string, the value under company_name when it is a mapping
NameGiven(step_input) ==
    IF step_input.input.type = "str" THEN {step_input.input}
    ELSE IF step_input.input.type = "dict"
    THEN {item[2] : item \in {i \in items(step_input.input.items) : i[1] = "company_name"}}
    ELSE {}

\* the input carries a non-blank company name
CarriesName(step_input) ==
    /\ step_input.has_input
    /\ \E v \in NameGiven(step_input) : v.type = "str" /\ NonBlank(v.text)

\* the name is missing or blank: no value is given, or the value is a blank
\* string, None or another empty value
NameMissing(step_input) ==
    /\ step_input.has_input
    /\ \A v \in NameGiven(step_input) :
           \/ v.type = "str" /\ ~NonBlank(v.text)
           \/ v.type = "NoneType"
           \/ v.type = "int" /\ v.num = 0

\* C39: a provisioning step executor never raises; for every input it
\* returns a StepOutput that holds one StepResult for its own system, with
\* status success when the input carries a non-blank company name (as a
\* string or under company_name in a mapping), with status error,
\* error_code MISSING_COMPANY_NAME and retryable false when the name is
\* missing or blank, and with status error, error_code INTERNAL_ERROR and
\* retryable true on any other failure.
C39_Executor ==
    \A p \in Callers :
        Answered(p, "provision") =>
            /\ resp[p].outcome.raised = "none"
            /\ LET result == from_content(resp[p].outcome.value.content)
                   step_input == req[p].step_input
               IN  /\ result.system = req[p].system
                   /\ result.attempt = 1
                   /\ CarriesName(step_input) =>
                          /\ result.status = "success"
                          /\ result.error_code = None
                   /\ NameMissing(step_input) =>
                          /\ result.status = "error"
                          /\ result.error_code = "MISSING_COMPANY_NAME"
                          /\ result.retryable = FALSE
                   /\ ~CarriesName(step_input) /\ ~NameMissing(step_input) =>
                          /\ result.status = "error"
                          /\ result.error_code = "INTERNAL_ERROR"
                          /\ result.retryable = TRUE

\* one executor answered success for a name given under company_name, and
\* another answered INTERNAL_ERROR for a number given as the name
C39_Witness ==
    /\ Answered(1, "provision")
    /\ req[1].step_input.input.type = "dict"
    /\ CarriesName(req[1].step_input)
    /\ from_content(resp[1].outcome.value.content).status = "success"
    /\ Answered(2, "provision")
    /\ req[2].system # req[1].system
    /\ ~CarriesName(req[2].step_input) /\ ~NameMissing(req[2].step_input)
    /\ from_content(resp[2].outcome.value.content).error_code = "INTERNAL_ERROR"

\* an executor answered MISSING_COMPANY_NAME for a string of white space
C39_WitnessBlank ==
    /\ Answered(1, "provision")
    /\ req[1].step_input.input = PyStr(<<" ", "\t">>)
    /\ from_content(resp[1].outcome.value.content).error_code = "MISSING_COMPANY_NAME"
    /\ from_content(resp[1].outcome.value.content).retryable = FALSE
====
